---- MODULE Spec2Model ----
(***************************************************************************)
(* A model of pGroupCohomology/factory.py: the factory of cohomology rings *)
(* (CohomologyRingFactory), its memory cache of unique rings, and the      *)
(* tiers it resolves a ring from: cache, workspace, local sources (the     *)
(* archive, mirrored by symbolic links) and remote repositories.           *)
(*                                                                         *)
(* Every method of the factory is one action: the method's whole body is   *)
(* computed by an operator on a record m (the "machine"), which carries    *)
(* the state the method reads and writes, the value it returns (out), the  *)
(* exception it raises (exc) and the trace of what it consulted.           *)
(***************************************************************************)
EXTENDS Integers, Sequences, FiniteSets, TLC

\* ------------------------------------------------------------- bounds
\* The number of cohomology rings that can be alive at the same time.
MaxHandles == 2
\* The same number while a tower of subgroups is built: the ring of the group,
\* the ring of the intermediate subgroup and the ring of the Sylow subgroup.
MaxTowerHandles == 3
\* The number of optional arguments (Subgroup, SylowSubgroup, SubgpCohomology,
\* SylowSubgpCohomology, OneStep) that one call of the factory is given.
MaxHints == 2
\* The number of groups in a chain given to from_subgroup_tower, and the
\* number of rounds of its loop that are followed.
MaxChain == 3
MaxRounds == 2

\* ------------------------------------------------------------ domains
Workspaces == {"W1", "W2"}
Archive == "A"
Roots == Workspaces \cup {Archive}
NoRoot == "none"
DefaultWorkspace == "W1"

\* GroupKeys as create_group_key returns them: (q, n), or the definition of a
\* group: here a definition of the group with the generators of SmallGroup(8,3)
GroupKeys == {<<8, 3>>, <<"SmallGroup(8,3)">>, <<128, 5>>}
Stems == {"8gp3", "128gp5"}
NPStems == {"18gp3"}
\* the subgroups of SmallGroup(18,3) that a tower is built from
SylowStems == {"2gp1", "3gp1", "9gp2"}
IntermediateStems == {"6gp2"}
\* the symmetric group of degree 3, as a group of its own
SymmetricStems == {"6gp1"}
AllStems == Stems \cup NPStems \cup SylowStems \cup SymmetricStems
Primes == {2, 3}
URLs == {"u1", "u2"}
DefaultRemoteSources == <<"u1">>
WsNone == "None"
WsFalse == "False"
Websources == {WsNone, WsFalse, "u2"}
\* the requests made of the factory: a group key with the stem name it gets
\* from gstem (the address in the library, or the GStem the user gives)
Requests == {<<<<8, 3>>, "8gp3">>, <<<<"SmallGroup(8,3)">>, "8gp3">>, <<<<128, 5>>, "128gp5">>}

\* the values of _IsKeyEquivalent
Different == 0
Equivalent == 1
Equal == 2
\* a group of order below this bound is never downloaded
WebOrderBound == 128

Min2(a, b) == IF a < b THEN a ELSE b
MinOf(S) == CHOOSE x \in S : \A y \in S : x <= y
Remove(f, k) == [x \in DOMAIN f \ {k} |-> f[x]]
Restrict(f, S) == [x \in DOMAIN f \cap S |-> f[x]]

\* ------------------------------------------------------ Group Backend
\* The isomorphism type of the group a GroupKey denotes together with its
\* generators: canonicalIsomorphism succeeds exactly between equal types.
GroupOf(KEY) == IF KEY \in {<<8, 3>>, <<"SmallGroup(8,3)">>} THEN "D8"
                ELSE IF KEY = <<"SmallGroup(8,4)">> THEN "Q8"
                ELSE IF KEY = <<128, 5>> THEN "G128n5"
                ELSE IF KEY \in {<<18, 3>>, <<"SmallGroup(18,3)">>, <<"SmallGroup(18, 3)">>}
                THEN "G18n3"
                ELSE IF KEY \in {<<18, 4>>, <<"SmallGroup(18,4)">>, <<"SmallGroup(18, 4)">>}
                THEN "G18n4"
                ELSE IF KEY = <<9, 2>> THEN "C3xC3"
                ELSE IF KEY = <<6, 2>> THEN "C6"
                ELSE IF KEY = <<6, 1>> THEN "S3"
                ELSE IF KEY = <<3, 1>> THEN "C3"
                ELSE "C2"
Order(KEY) == IF KEY \in {<<8, 3>>, <<"SmallGroup(8,3)">>, <<"SmallGroup(8,4)">>} THEN 8
              ELSE IF KEY = <<128, 5>> THEN 128
              ELSE IF GroupOf(KEY) \in {"G18n3", "G18n4"} THEN 18
              ELSE IF KEY = <<9, 2>> THEN 9
              ELSE IF KEY \in {<<6, 2>>, <<6, 1>>} THEN 6
              ELSE IF KEY = <<3, 1>> THEN 3
              ELSE 2
CanonicalIsomorphism(K1, K2) == GroupOf(K1) = GroupOf(K2)

\* ---------------------------------------------------------------- keys
\* a key that does not tell the roots apart
PKeyOfStem(KEY, root, GStem) == <<KEY, <<DefaultWorkspace, GStem>>>>
\* (KEY, os.path.join(root, GStem, 'dat', 'State'))
PKey(KEY, root, GStem) == <<KEY, <<root, GStem>>>>
\* (KEY, GStem, HP._key, pr)
NPKey(KEY, GStem, subkey, pr) == <<KEY, GStem, subkey, pr>>

\* ---------------------------------------------------------------- disk
\* root/GStem/H<GStem>.sobj: absent, a saved ring (its group key and known
\* degree: 0 basic setup, 1 complete), undecodable data, or a symbolic link
\* to the same entry of the local sources.
Absent == [st |-> "absent", gk |-> <<>>, deg |-> 0]
Corrupt == [st |-> "corrupt", gk |-> <<>>, deg |-> 0]
Link == [st |-> "link", gk |-> <<>>, deg |-> 0]
Saved(KEY, deg) == [st |-> "ok", gk |-> KEY, deg |-> deg]

\* root/H<GStem>mod<pr>.sobj
\* a saved ring holds its group key, the group key and stem of the ring of
\* its subgroup, the subgroup, and (inner) the group key and stem of the ring
\* below the ring of the subgroup, if that is not a ring of a prime power group
NPAbsent == [st |-> "absent", gk |-> <<>>, subgk |-> <<>>, substem |-> "", sub |-> "",
             inner |-> <<>>]
NPLink == [st |-> "link", gk |-> <<>>, subgk |-> <<>>, substem |-> "", sub |-> "",
           inner |-> <<>>]
NPCorrupt == [st |-> "corrupt", gk |-> <<>>, subgk |-> <<>>, substem |-> "", sub |-> "",
              inner |-> <<>>]
NPSavedTower(KEY, subgk, substem, sub, inner) ==
    [st |-> "ok", gk |-> KEY, subgk |-> subgk, substem |-> substem, sub |-> sub,
     inner |-> inner]
NPSaved(KEY, subgk, substem) == NPSavedTower(KEY, subgk, substem, "T1", <<>>)

\* what a path resolves to (a link resolves to the entry of the local sources)
Content(disk, root, GStem) ==
    LET c == disk[root][GStem]
    IN IF c.st = "link"
       THEN IF root # Archive /\ disk[Archive][GStem].st # "link"
            THEN disk[Archive][GStem] ELSE Absent
       ELSE c
NPContent(npdisk, root, f) ==
    LET c == npdisk[root][f]
    IN IF c.st = "link"
       THEN IF root # Archive /\ npdisk[Archive][f].st # "link"
            THEN npdisk[Archive][f] ELSE NPAbsent
       ELSE c
\* os.access(path, os.R_OK)
Readable(disk, root, GStem) == root \in Roots /\ Content(disk, root, GStem).st # "absent"
NPReadable(npdisk, root, f) == root \in Roots /\ NPContent(npdisk, root, f).st # "absent"

\* the local sources as shipped: the ring of SmallGroup(8,3), complete, and
\* the mod-2 ring of SmallGroup(18,3)
InitDisk == [r \in Roots |-> [s \in AllStems |->
                IF r = Archive /\ s = "8gp3" THEN Saved(<<8, 3>>, 1) ELSE Absent]]
NPFiles == (NPStems \cup IntermediateStems \cup SymmetricStems) \X Primes
InitNPDisk == [r \in Roots |-> [f \in NPFiles |->
                IF r = Archive /\ f = <<"18gp3", 2>> THEN NPSaved(<<18, 3>>, <<2, 1>>, "2gp1") ELSE NPAbsent]]

\* ------------------------------------------------------------ variables
\* tree: the files, folders and links that _symlink_to_database works on
VARIABLES workspace, local_sources, create_local_sources, remote_sources,
          coho_options, cache, handles, disk, npdisk, stable, restored, last, tree

vars == <<workspace, local_sources, create_local_sources, remote_sources,
          coho_options, cache, handles, disk, npdisk, stable, restored, last, tree>>

DefaultOptions == [use_web |-> TRUE, use_this_root |-> NoRoot]

\* the root in which rings are created
RootWorkspace(cfg) == IF cfg.create_local_sources THEN cfg.local_sources ELSE cfg.workspace

Config == [workspace |-> workspace, local_sources |-> local_sources,
           create_local_sources |-> create_local_sources,
           remote_sources |-> remote_sources]

\* The machine a method starts from.
Cur == [cfg |-> Config, opts |-> coho_options, cache |-> cache, handles |-> handles,
        disk |-> disk, npdisk |-> npdisk, trace |-> <<>>, out |-> 0, exc |-> "",
        full |-> FALSE, cap |-> MaxHandles]

Log(m, tier, what) == [m EXCEPT !.trace = Append(@, <<tier, what>>)]
Raise(m, e) == [m EXCEPT !.exc = e, !.out = 0]
Caught(m) == [m EXCEPT !.exc = "", !.out = 0]

\* a dictionary that keeps the rings nobody refers to
CollectNothing(m, keep) == m
\* A ring nobody refers to any more disappears from the weak dictionary.
Collect(m, keep) ==
    [m EXCEPT !.handles = Restrict(@, keep),
              !.cache = [k \in {x \in DOMAIN m.cache : m.cache[x] \in keep} |-> m.cache[k]]]

\* ---------------------------------------------------------------- rings
\* The keyword arguments that become properties of the ring (OUT.setprop):
\* none, or one of two values of a property such as GroupName.
NoKwds == "none"
Kwds == {NoKwds, "GroupName=X", "GroupName=Y"}
\* COHO.__init__ and unpickling: the new ring enters the cache under its key.
FreeIds(m) == (1..m.cap) \ DOMAIN m.handles
NewRing(m, key, deg) ==
    IF FreeIds(m) = {} THEN [m EXCEPT !.full = TRUE, !.out = 0]
    ELSE LET h == MinOf(FreeIds(m))
         IN [m EXCEPT !.handles = (h :> [key |-> key, deg |-> deg, props |-> NoKwds,
                                         hp |-> 0, hsyl |-> 0, sub |-> ""]) @@ @,
                      !.cache = (key :> h) @@ @,
                      !.out = h]

\* COHO.autosave_name: the file of the ring under its own root
AutosaveName(ring) == ring.key[2]
AutosaveReadable(m, ring) ==
    /\ Len(ring.key) = 2
    /\ Readable(m.disk, AutosaveName(ring)[1], AutosaveName(ring)[2])

\* load(path): unpickling a ring under the root '@use_this_root@' yields the
\* ring of that key if it is alive, and otherwise a new ring in the cache.
Load(m, root, GStem) ==
    LET c == Content(m.disk, root, GStem)
        key == PKey(c.gk, root, GStem)
    IN IF c.st # "ok" THEN Raise(m, "LoadError")
       ELSE IF key \in DOMAIN m.cache THEN [m EXCEPT !.out = m.cache[key]]
       ELSE NewRing(m, key, c.deg)

\* safe_save(OUT, OUT.autosave_name()): ok tells whether the file system
\* takes the data
SafeSave(m, h, ok) ==
    LET ring == m.handles[h]
        p == AutosaveName(ring)
    IN IF ok /\ Len(ring.key) = 2
       THEN [m EXCEPT !.disk[p[1]][p[2]] = Saved(ring.key[1], ring.deg)]
       ELSE m

\* ------------------------------------------------------ the environment
\* What a repository answers when the artifact of a stem is requested:
\*   http404      urlopen raises URLError "HTTP Error 404"
\*   unreachable  urlopen raises another URLError
\*   interrupt    the user presses Ctrl-c during the access
\*   othererr     another exception (a broken archive, a socket error)
\*   noring       the archive is unpacked but holds no ring that can be loaded
\*   good         the archive holds the ring of the group key env.webgk
Answers == {"http404", "unreachable", "interrupt", "othererr", "noring", "good"}
Raising == {"http404", "unreachable", "interrupt", "othererr"}
ExceptionOf(answer) == IF answer = "http404" THEN "URLError404"
                       ELSE IF answer = "unreachable" THEN "URLError"
                       ELSE IF answer = "interrupt" THEN "KeyboardInterrupt"
                       ELSE "OtherError"
\* env: resp (the answer of each URL), webgk (the group key of the rings in
\* the repositories), saveOK (safe_save succeeds), linkOK (links can be made),
\* engine (the group key that a ring assembled by MODCOHO reports: the key it
\* was given, the definition of the group as GAP prints it, with blanks, or
\* the key of another group)
Engines == {"same", "spaced", "other"}
DefaultEnv == [resp |-> [u \in URLs |-> "http404"], webgk |-> <<8, 3>>,
               saveOK |-> TRUE, linkOK |-> TRUE, engine |-> "same"]

\* --------------------------------------------------------- SourceMirror
\* _symlink_to_database(publ, priv) for the folder of one stem: afterwards
\* the entries of priv are links to the entries of publ.
SymlinkToDatabase(m, publ, priv, GStem, ok) ==
    IF ~(publ \in Roots /\ m.disk[publ][GStem].st \in {"ok", "corrupt"}) THEN Raise(m, "ValueError")
    ELSE IF priv = publ THEN Raise(m, "ValueError")
    ELSE IF ~ok THEN Raise(m, "OSError")
    ELSE Log([m EXCEPT !.disk[priv][GStem] = Link], "symlink", GStem)

\* ------------------------------------------------- from_remote_sources
\* "try: OUT = load(...)  except: OUT = None" after the archive was unpacked
LoadOrNone(m3, m4) == IF m4.exc # "" THEN Caught(m3) ELSE m4
RemoteLoad(m3, root, GStem) == LoadOrNone(m3, Load(m3, root, GStem))
\* the archive that a repository delivers is unpacked into the root
Unpack(m1, root, GStem, answer, env) ==
    IF answer = "good"
    THEN [m1 EXCEPT !.disk[root][GStem] = Saved(env.webgk, 1), !.opts.use_this_root = root]
    ELSE [m1 EXCEPT !.opts.use_this_root = root]

\* the loop "for URL in websource" in the prime power case (prime is None)
RECURSIVE RemoteLoop(_, _, _, _, _, _)
RemoteLoop(m, root, GStem, urls, i, env) ==
    IF i > Len(urls) THEN m
    ELSE IF env.resp[urls[i]] \in Raising
    THEN Raise(Log(m, "tar", urls[i]), ExceptionOf(env.resp[urls[i]]))
    ELSE RemoteLoop(RemoteLoad(Unpack(Log(m, "tar", urls[i]), root, GStem, env.resp[urls[i]], env),
                               root, GStem),
                    root, GStem, urls, i + 1, env)

\* the ring that "load(urlopen(URL + ...))" yields when a prime is given
LoadPrime(m2, key) ==
    IF key \in DOMAIN m2.cache THEN [m2 EXCEPT !.out = m2.cache[key]] ELSE NewRing(m2, key, 1)
\* "safe_save(OUT, ...)" and "return OUT"
SavePrime(m3, root, GStem, prime, env) ==
    IF env.saveOK /\ GStem \in NPStems /\ prime \in Primes
    THEN [m3 EXCEPT !.npdisk[root][<<GStem, prime>>] = NPSaved(env.webgk, <<2, 1>>, "2gp1"),
                    !.exc = "return"]
    ELSE [m3 EXCEPT !.exc = "return"]

\* the same loop when a prime is given: the first ring found is returned
RECURSIVE RemoteLoopPrime(_, _, _, _, _, _, _)
RemoteLoopPrime(m, root, GStem, prime, urls, i, env) ==
    IF i > Len(urls) THEN m
    ELSE IF env.resp[urls[i]] \in Raising
    THEN Raise(Log(m, "sobj", urls[i]), ExceptionOf(env.resp[urls[i]]))
    ELSE IF env.resp[urls[i]] = "good"
    THEN SavePrime(LoadPrime([Log(m, "sobj", urls[i]) EXCEPT !.opts.use_this_root = root],
                             NPKey(env.webgk, GStem, PKey(<<2, 1>>, root, "2gp1"), prime)),
                   root, GStem, prime, env)
    ELSE RemoteLoopPrime([Log(m, "sobj", urls[i]) EXCEPT !.opts.use_this_root = root],
                         root, GStem, prime, urls, i + 1, env)

\* the list of URLs that is searched
WebsourceList(m, websource) ==
    IF websource = WsNone THEN m.cfg.remote_sources
    ELSE IF websource = WsFalse THEN <<>>
    ELSE <<websource>>

\* after the loop: no ring is an error, a ring of degree 0 is saved
AfterRemoteLoop(m1, env) ==
    IF m1.exc = "return" THEN [m1 EXCEPT !.exc = ""]
    ELSE IF m1.exc # "" THEN m1
    ELSE IF m1.out = 0 THEN Raise(m1, "RuntimeError")
    ELSE IF m1.handles[m1.out].deg = 0 THEN SafeSave(m1, m1.out, env.saveOK)
    ELSE m1

\* from_remote_sources(GStem, websource, prime); prime = 0 stands for None
FromRemoteSources(m, GStem, websource, prime, env) ==
    IF ~m.opts.use_web THEN m
    ELSE IF WebsourceList(m, websource) = <<>> THEN m
    ELSE IF prime # 0 /\ prime \notin Primes THEN Raise(Log(m, "remote", GStem), "ValueError")
    ELSE IF prime = 0
    THEN AfterRemoteLoop(RemoteLoop(Log(m, "remote", GStem), RootWorkspace(m.cfg), GStem,
                                    WebsourceList(m, websource), 1, env), env)
    ELSE AfterRemoteLoop(RemoteLoopPrime(Log(m, "remote", GStem), RootWorkspace(m.cfg), GStem,
                                         prime, WebsourceList(m, websource), 1, env), env)

\* ------------------------------------- _get_p_group_from_cache_or_db
\* "except BaseException as msg: coho_options.pop('@use_this_root@');
\* raise IOError" and "coho_options.pop('@use_this_root@')"
PopRoot(m1) ==
    IF m1.exc # "" THEN Raise([m1 EXCEPT !.opts.use_this_root = NoRoot], "IOError")
    ELSE [m1 EXCEPT !.opts.use_this_root = NoRoot]
\* load under coho_options['@use_this_root@'], which is removed again
LoadFromWorkspace(m, root, GStem) ==
    PopRoot(Load([m EXCEPT !.opts.use_this_root = root], root, GStem))

\* 1. Cache: a ring whose file is readable is returned; a ring that is in the
\* cache but not on disk is removed from the cache.
CacheStale(m, CacheKey) ==
    /\ CacheKey \in DOMAIN m.cache
    /\ ~AutosaveReadable(m, m.handles[m.cache[CacheKey]])
CacheHit(m, CacheKey) ==
    /\ CacheKey \in DOMAIN m.cache
    /\ AutosaveReadable(m, m.handles[m.cache[CacheKey]])
\* a cache tier that takes every entry for stale
CacheTierEvicting(m, CacheKey) ==
    IF CacheKey \in DOMAIN m.cache
    THEN Log(Log([m EXCEPT !.cache = Remove(@, CacheKey)], "cache", ""), "evict", "")
    ELSE Log(m, "cache", "")
\* a cache tier that returns a ring without looking for its file
CacheTierTrusting(m, CacheKey) ==
    IF CacheKey \in DOMAIN m.cache
    THEN Log(Log([m EXCEPT !.out = m.cache[CacheKey]], "cache", ""), "hit", "")
    ELSE Log(m, "cache", "")
CacheTier(m, CacheKey) ==
    IF CacheHit(m, CacheKey)
    THEN Log(Log([m EXCEPT !.out = m.cache[CacheKey]], "cache", ""), "hit", "")
    ELSE IF CacheStale(m, CacheKey)
    THEN Log(Log([m EXCEPT !.cache = Remove(@, CacheKey)], "cache", ""), "evict", "")
    ELSE Log(m, "cache", "")

\* a workspace tier that loads the file also when from_scratch is set
WorkspaceTierLoading(m, root, GStem, from_scratch) ==
    LoadFromWorkspace(Log(m, "load", GStem), root, GStem)
\* 2. the workspace holds the file: it is loaded, unless from_scratch
WorkspaceTier(m, root, GStem, from_scratch) ==
    IF from_scratch THEN Raise(m, "StaleDataConflict")
    ELSE LoadFromWorkspace(Log(m, "load", GStem), root, GStem)

\* local sources that are linked to also when from_scratch is set
ArchiveAppliesToScratch(m, rls, GStem, from_scratch) ==
    /\ rls # NoRoot
    /\ Readable(m.disk, rls, GStem)
\* 3. the condition under which the local sources are linked to
ArchiveApplies(m, rls, GStem, from_scratch) ==
    /\ rls # NoRoot
    /\ Readable(m.disk, rls, GStem)
    /\ ~from_scratch
LoadLinked(m1, root, GStem) ==
    IF m1.exc # "" THEN Raise(m1, "ValueError")
    ELSE LoadFromWorkspace(Log(m1, "load", GStem), root, GStem)
ArchiveTier(m, root, rls, GStem, env) ==
    LoadLinked(SymlinkToDatabase(Log(m, "mirror", GStem), rls, root, GStem, env.linkOK),
               root, GStem)

\* 4. the condition under which the web repositories are searched
RemoteApplies(websource, from_scratch) == websource # WsFalse /\ ~from_scratch
\* except clauses that let the interrupt of the user pass
RemoteCaughtNoInterrupt == {"URLError404", "URLError", "ValueError", "RuntimeError"}
\* which exceptions of from_remote_sources are logged and not raised
RemoteCaught == {"URLError404", "URLError", "ValueError", "RuntimeError", "KeyboardInterrupt"}
\* the rings made by a call that failed are garbage
ExceptRemote(m1, caught, keep) ==
    IF m1.exc \in caught THEN Collect(Caught(Log(m1, "caught", m1.exc)), keep) ELSE m1
RemoteTier(m, GStem, websource, env) ==
    ExceptRemote(FromRemoteSources(m, GStem, websource, 0, env), RemoteCaught, DOMAIN m.handles)

\* the chain if / elif / elif of the tiers 2. to 4.
ArchiveLogged(m, rls) ==
    IF rls # NoRoot THEN Log(Log(m, "workspace", ""), "archive", "") ELSE Log(m, "workspace", "")
\* a chain that searches the web before it looks into the local sources
TierChainWebFirst(m, root, rls, GStem, from_scratch, websource, env) ==
    IF Readable(m.disk, root, GStem)
    THEN WorkspaceTier(Log(m, "workspace", ""), root, GStem, from_scratch)
    ELSE IF RemoteApplies(websource, from_scratch)
    THEN RemoteTier(ArchiveLogged(m, rls), GStem, websource, env)
    ELSE IF ArchiveApplies(m, rls, GStem, from_scratch)
    THEN ArchiveTier(ArchiveLogged(m, rls), root, rls, GStem, env)
    ELSE ArchiveLogged(m, rls)
TierChain(m, root, rls, GStem, from_scratch, websource, env) ==
    IF Readable(m.disk, root, GStem)
    THEN WorkspaceTier(Log(m, "workspace", ""), root, GStem, from_scratch)
    ELSE IF ArchiveApplies(m, rls, GStem, from_scratch)
    THEN ArchiveTier(ArchiveLogged(m, rls), root, rls, GStem, env)
    ELSE IF RemoteApplies(websource, from_scratch)
    THEN RemoteTier(ArchiveLogged(m, rls), GStem, websource, env)
    ELSE ArchiveLogged(m, rls)

\* after a ring was found outside the cache: the stored group must be the
\* group of the SmallGroups library when KEY is an address of the library
\* "for k,v in kwds.items(): OUT.setprop(k, v)"
SetProps(m, kwds) ==
    IF kwds = NoKwds THEN m ELSE [m EXCEPT !.handles[m.out].props = kwds]
\* a resolver that does not compare the stored group with the library
PostLoadUnchecked(m, KEY, kwds) ==
    IF m.exc # "" \/ m.full \/ m.out = 0 THEN m ELSE SetProps(m, kwds)
PostLoad(m, KEY, kwds) ==
    IF m.exc # "" \/ m.full \/ m.out = 0 THEN m
    ELSE IF Len(KEY) = 2 /\ ~CanonicalIsomorphism(m.handles[m.out].key[1], KEY)
    THEN Raise(Log(m, "libcheck", "fail"), "ValueError")
    ELSE IF Len(KEY) = 2 THEN SetProps(Log(m, "libcheck", "ok"), kwds)
    ELSE SetProps(m, kwds)

\* from_scratch switches the option use_web off
FromScratchOption(m, from_scratch) ==
    IF from_scratch THEN [m EXCEPT !.opts.use_web = FALSE] ELSE m

\* a resolver that refuses a request from scratch before it returns the ring
\* of the cache
AfterCacheRefusing(m2, root, rls, GStem, KEY, from_scratch, websource, kwds, env) ==
    IF m2.out # 0 /\ from_scratch THEN Raise(m2, "StaleDataConflict")
    ELSE IF m2.out # 0 THEN m2
    ELSE PostLoad(TierChain(m2, root, rls, GStem, from_scratch, websource, env), KEY, kwds)
\* "return OUT" of the cache tier, or else the tiers 2. to 4.
AfterCache(m2, root, rls, GStem, KEY, from_scratch, websource, kwds, env) ==
    IF m2.out # 0 THEN m2
    ELSE PostLoad(TierChain(m2, root, rls, GStem, from_scratch, websource, env), KEY, kwds)

GetPGroupFromCacheOrDb(m0, GStem, KEY, from_scratch, websource, kwds, env) ==
    AfterCache(CacheTier(FromScratchOption(m0, from_scratch),
                         PKey(KEY, RootWorkspace(m0.cfg), GStem)),
               RootWorkspace(m0.cfg), m0.cfg.local_sources, GStem, KEY, from_scratch,
               websource, kwds, env)

\* ----------------------------------------- _get_p_group_from_scratch
\* "try: safe_save(OUT, ...)  except: coho_logger.error(...)"
\* a basic setup that is not saved
SaveNewSkipped(m1, GStem, env) == m1
SaveNew(m1, GStem, env) ==
    IF m1.full THEN m1
    ELSE IF env.saveOK THEN SafeSave(m1, m1.out, TRUE)
    ELSE Log(m1, "savefailed", GStem)
GetPGroupFromScratch(m, KEY, GStem, env) ==
    SaveNew(NewRing(Log(m, "initBasic", GStem), PKey(KEY, RootWorkspace(m.cfg), GStem), 0),
            GStem, env)

\* ------------------------------------- _symlink_to_database, file by file
\* A file system is a function from the paths that exist to what is there: a
\* file, a folder (readable or not) or a symbolic link to a path. publ is
\* the folder <<"P">>, priv is <<"Q">>, and <<"Z">> is a folder elsewhere.
File == [k |-> "file", to |-> <<>>, r |-> TRUE]
Folder(r) == [k |-> "dir", to |-> <<>>, r |-> r]
SymLink(to) == [k |-> "link", to |-> to, r |-> TRUE]
Publ == <<"P">>
Priv == <<"Q">>
Parent(p) == SubSeq(p, 1, Len(p) - 1)
\* the number of links that are followed in one path
MaxLinks == 3
\* os.path.realpath(p)
RECURSIVE Realpath(_, _, _)
Follow(t, q, fuel) ==
    IF q \in DOMAIN t /\ t[q].k = "link" /\ fuel > 0 THEN Realpath(t, t[q].to, fuel - 1) ELSE q
Realpath(t, p, fuel) ==
    IF p = <<>> THEN <<>>
    ELSE Follow(t, Append(Realpath(t, Parent(p), fuel), p[Len(p)]), fuel)
\* the entry that p names, when the links of its folders are followed
LPath(t, p) == Append(Realpath(t, Parent(p), MaxLinks), p[Len(p)])
\* os.path.islink(p), os.path.isdir(p), os.access(p, os.F_OK), os.access(p, os.R_OK)
IsLink(t, p) == LPath(t, p) \in DOMAIN t /\ t[LPath(t, p)].k = "link"
IsDir(t, p) ==
    Realpath(t, p, MaxLinks) \in DOMAIN t /\ t[Realpath(t, p, MaxLinks)].k = "dir"
Access(t, p) == Realpath(t, p, MaxLinks) \in DOMAIN t
AccessR(t, p) == Access(t, p) /\ t[Realpath(t, p, MaxLinks)].r
Children(t, d) == {p \in DOMAIN t : Len(p) = Len(d) + 1 /\ Parent(p) = d}
\* os.listdir(publ)
Listdir(t, d) == {p[Len(p)] : p \in Children(t, d)}

\* The run of _symlink_to_database: the file system t, the changes made so
\* far (ops) and the exception that ended the run.
Run(t) == [t |-> t, ops |-> <<>>, exc |-> ""]
Failed(s, e) == [s EXCEPT !.exc = e]
\* os.unlink(p)
UnlinkAt(s, q) ==
    IF q \notin DOMAIN s.t \/ s.t[q].k = "dir" THEN Failed(s, "OSError")
    ELSE [s EXCEPT !.t = Remove(s.t, q), !.ops = Append(@, <<"unlink", q>>)]
Unlink(s, p) == IF s.exc # "" THEN s ELSE UnlinkAt(s, LPath(s.t, p))
\* os.rmdir(p)
RmdirAt(s, q) ==
    IF q \notin DOMAIN s.t \/ s.t[q].k # "dir" \/ Children(s.t, q) # {} THEN Failed(s, "OSError")
    ELSE [s EXCEPT !.t = Remove(s.t, q), !.ops = Append(@, <<"rmdir", q>>)]
Rmdir(s, p) == IF s.exc # "" THEN s ELSE RmdirAt(s, LPath(s.t, p))
\* os.makedirs(p)
Mkdir(s, q) ==
    IF s.exc # "" THEN s
    ELSE [s EXCEPT !.t = (q :> Folder(TRUE)) @@ s.t, !.ops = Append(@, <<"mkdir", q>>)]
RECURSIVE Makedirs(_, _)
Makedirs(s, q) ==
    IF s.exc # "" \/ q = <<>> THEN s
    ELSE IF q \in DOMAIN s.t
    THEN IF s.t[q].k = "dir" THEN s ELSE Failed(s, "OSError")
    ELSE Mkdir(Makedirs(s, Parent(q)), q)
\* os.symlink(src, dst)
SymlinkAt(s, src, q) ==
    IF q \in DOMAIN s.t \/ Parent(q) \notin DOMAIN s.t THEN Failed(s, "OSError")
    ELSE [s EXCEPT !.t = (q :> SymLink(src)) @@ s.t, !.ops = Append(@, <<"symlink", q>>)]
Symlink(s, src, dst) == IF s.exc # "" THEN s ELSE SymlinkAt(s, src, LPath(s.t, dst))

\* a run that does not look at the folder it is given
SourceUnchecked(s, publ, priv) == s
\* "if not (os.access(publ,os.R_OK) and os.path.isdir(publ)): raise ValueError
\*  if priv==publ: raise ValueError"
SourceChecked(s, publ, priv) ==
    IF s.exc # "" THEN s
    ELSE IF ~(AccessR(s.t, publ) /\ IsDir(s.t, publ)) THEN Failed(s, "ValueError")
    ELSE IF priv = publ THEN Failed(s, "ValueError")
    ELSE s
\* "if not os.path.isdir(priv): ... os.unlink(priv) ... os.makedirs(priv)"
PrivFolder(s, priv) ==
    IF s.exc # "" \/ IsDir(s.t, priv) THEN s
    ELSE IF Access(s.t, priv) \/ IsLink(s.t, priv) THEN Makedirs(Unlink(s, priv), priv)
    ELSE Makedirs(s, priv)
\* "if os.path.isdir(privd): os.rmdir(privd)
\*  elif os.access(privd, os.F_OK): os.unlink(privd)"
Clear(s, privd) ==
    IF s.exc # "" THEN s
    ELSE IF IsDir(s.t, privd) THEN Rmdir(s, privd)
    ELSE IF Access(s.t, privd) THEN Unlink(s, privd)
    ELSE s
\* a run that takes no link for established
NeverLinked(t, publd, privd) == FALSE
\* "if os.path.realpath(os.path.join(priv,d)) == publd: continue"
AlreadyLinked(t, publd, privd) == Realpath(t, privd, MaxLinks) = publd

RECURSIVE MirrorTree(_, _, _)
RECURSIVE MirrorEntries(_, _, _, _)
\* "if os.path.isdir(publd): _symlink_to_database(publd, privd)
\*  else: ... os.symlink(publd, privd)"
Place(s, publd, privd) ==
    IF s.exc # "" THEN s
    ELSE IF IsDir(s.t, publd) THEN MirrorTree(s, publd, privd)
    ELSE Symlink(Clear(s, privd), publd, privd)
\* one round of "for d in L0"
MirrorEntry(s, publd, privd) ==
    IF IsLink(s.t, privd)
    THEN IF AlreadyLinked(s.t, publd, privd) THEN s ELSE Place(Unlink(s, privd), publd, privd)
    ELSE Place(s, publd, privd)
NextEntry(todo) == CHOOSE d \in todo : TRUE
MirrorEntries(s, publ, priv, todo) ==
    IF s.exc # "" \/ todo = {} THEN s
    ELSE MirrorEntries(MirrorEntry(s, Realpath(s.t, Append(publ, NextEntry(todo)), MaxLinks),
                                   Append(priv, NextEntry(todo))),
                       publ, priv, todo \ {NextEntry(todo)})
\* the folders are there: "L0 = os.listdir(publ); for d in L0: ..."
MirrorFolder(s, publ, priv) ==
    IF s.exc # "" THEN s ELSE MirrorEntries(s, publ, priv, Listdir(s.t, publ))
\* "priv = os.path.realpath(priv); publ = os.path.realpath(publ)"
MirrorReal(s, publ, priv) ==
    MirrorFolder(PrivFolder(SourceChecked(s, publ, priv), priv), publ, priv)
\* _symlink_to_database(publ, priv)
MirrorTree(s, publ, priv) ==
    MirrorReal(s, Realpath(s.t, publ, MaxLinks), Realpath(s.t, priv, MaxLinks))

\* ------------------------------------------ _get_non_p_group_from_db
\* unpickling H<GStem>mod<pr>.sobj
NPLoadAs(m, c, key) ==
    IF c.st # "ok" THEN Raise([m EXCEPT !.opts.use_this_root = NoRoot], "IOError")
    ELSE IF key \in DOMAIN m.cache
    THEN [m EXCEPT !.opts.use_this_root = NoRoot, !.out = m.cache[key]]
    ELSE NewRing([m EXCEPT !.opts.use_this_root = NoRoot], key, 1)
\* the key of the ring of the subgroup, as the file of content c holds it
StoredHPKey(c, root, pr) ==
    IF c.inner = <<>> THEN PKey(c.subgk, root, c.substem)
    ELSE NPKey(c.subgk, c.substem, PKey(c.inner[1], root, c.inner[2]), pr)
NPLoadContent(m, c, root, GStem, pr) ==
    NPLoadAs(m, c, NPKey(c.gk, GStem, StoredHPKey(c, root, pr), pr))
NPLoad(m, root, GStem, pr) ==
    NPLoadContent(m, NPContent(m.npdisk, root, <<GStem, pr>>), root, GStem, pr)

\* 2. os.symlink of the file of the local sources into the workspace
NPArchiveApplies(m, rls, f, from_scratch) ==
    /\ rls # NoRoot
    /\ NPReadable(m.npdisk, rls, f)
    /\ ~from_scratch
\* "raise IOError('%. Saved data at %s are not readable'%(msg, ...))": '%. ' is
\* not a conversion, so that the formatting of the message raises ValueError
NotReadableFormat(m1) == IF m1.exc = "IOError" THEN Raise(m1, "ValueError") ELSE m1
NPSymlink(m, root, GStem, pr, env) ==
    IF m.npdisk[root][<<GStem, pr>>].st # "absent" \/ ~env.linkOK THEN Raise(m, "OSError")
    ELSE NotReadableFormat(
             NPLoad(Log(Log([m EXCEPT !.npdisk[root][<<GStem, pr>>] = NPLink], "symlink", GStem),
                        "load", GStem), root, GStem, pr))
NPArchiveTier(m, root, GStem, pr, env) == NPSymlink(Log(m, "mirror", GStem), root, GStem, pr, env)

\* 3. the web repositories; whatever from_remote_sources raises is logged
AllExceptions == {ExceptionOf(a) : a \in Raising} \cup {"ValueError", "RuntimeError"}
NPRemoteTier(m, GStem, websource, env) ==
    ExceptRemote(FromRemoteSources(m, GStem, websource, 0, env), AllExceptions, DOMAIN m.handles)

GetNonPGroupFromDb(m, GStem, pr, from_scratch, websource, env) ==
    IF NPReadable(m.npdisk, RootWorkspace(m.cfg), <<GStem, pr>>)
    THEN IF from_scratch THEN Raise(Log(m, "workspace", ""), "StaleDataConflict")
         ELSE NPLoad(Log(Log(m, "workspace", ""), "load", GStem), RootWorkspace(m.cfg), GStem, pr)
    ELSE IF NPArchiveApplies(m, m.cfg.local_sources, <<GStem, pr>>, from_scratch)
    THEN NPArchiveTier(ArchiveLogged(m, m.cfg.local_sources), RootWorkspace(m.cfg), GStem, pr, env)
    ELSE IF RemoteApplies(websource, from_scratch)
    THEN NPRemoteTier(ArchiveLogged(m, m.cfg.local_sources), GStem, websource, env)
    ELSE ArchiveLogged(m, m.cfg.local_sources)

\* --------------------------------------------------- _IsKeyEquivalent
\* a comparison that takes the file location for a part of the key
IsKeyEquivalentLocated(k1, k2) ==
    IF Len(k1) # Len(k2) THEN Different
    ELSE IF k1 = k2 THEN Equal
    ELSE IF CanonicalIsomorphism(k1[1], k2[1]) THEN Equivalent
    ELSE Different
\* a comparison that knows equal keys only
IsKeyEquivalentLiteral(k1, k2) == IF k1 = k2 THEN Equal ELSE Different
RECURSIVE IsKeyEquivalent(_, _)
IsKeyEquivalent(k1, k2) ==
    IF Len(k1) # Len(k2) THEN Different
    ELSE LET similarity == IF k1[1] = k2[1] THEN Equal
                           ELSE IF CanonicalIsomorphism(k1[1], k2[1]) THEN Equivalent
                           ELSE Different
         IN IF similarity = Different THEN Different
            ELSE IF Len(k1) = 3 THEN Min2(similarity, IsKeyEquivalent(k1[3], k2[3]))
            ELSE similarity

\* ------------------------------------------------ _check_compatibility
\* a comparison that lets every ring pass
CompatibleAlways(m, similarity) == m
\* a comparison that does not warn
CompatibleSilent(m, similarity) ==
    IF similarity = Different THEN Raise(Log(m, "mismatch", ""), "ValueError") ELSE m
Compatible(m, similarity) ==
    IF similarity = Equivalent THEN Log(m, "warning", "equivalent")
    ELSE IF similarity = Different THEN Raise(Log(m, "mismatch", ""), "ValueError")
    ELSE m
CheckCompatibility(m, CacheKey) ==
    IF m.exc # "" \/ m.full THEN m
    ELSE Compatible(m, IsKeyEquivalent(CacheKey, m.handles[m.out].key))

\* ------------------------------------- __call__, the prime power case
\* a ring of a group of order below 128 is not downloaded
FactoryWebsource(KEY, websource) == IF Order(KEY) < WebOrderBound THEN WsFalse ELSE websource

\* "if OUT is None: OUT = self._get_p_group_from_scratch(...)"
ScratchIfNone(m2, KEY, GStem, env) ==
    IF m2.exc # "" \/ m2.full \/ m2.out # 0 THEN m2
    ELSE GetPGroupFromScratch(m2, KEY, GStem, env)

FactoryCall(m0, KEY, GStem, from_scratch, websource, env) ==
    CheckCompatibility(
        ScratchIfNone(GetPGroupFromCacheOrDb(FromScratchOption(m0, from_scratch), GStem, KEY,
                                             from_scratch, FactoryWebsource(KEY, websource),
                                             NoKwds, env),
                      KEY, GStem, env),
        PKey(KEY, RootWorkspace(m0.cfg), GStem))

\* ----------------------------------------------------------------- reset
\* "CohomologyRing._cache.clear()"
ClearCache(m) == [m EXCEPT !.cache = <<>>]
\* "self.set_local_sources(True)": the flag is set before the folder is
\* looked at
DefaultLocalSources(m, sourcesOK) ==
    IF sourcesOK
    THEN [m EXCEPT !.cfg.create_local_sources = TRUE, !.cfg.local_sources = Archive]
    ELSE Raise([m EXCEPT !.cfg.create_local_sources = TRUE], "OSError")
\* "self.set_local_sources(False)"
ReadOnlyLocalSources(m) ==
    IF m.exc # "" THEN m ELSE [m EXCEPT !.cfg.create_local_sources = FALSE]
\* "self.set_workspace(None)"
DefaultWorkspaceSet(m, workspaceOK) ==
    IF m.exc # "" THEN m
    ELSE IF workspaceOK THEN [m EXCEPT !.cfg.workspace = DefaultWorkspace]
    ELSE Raise(m, "OSError")
\* "self.set_remote_sources(None)"
DefaultRemoteSourcesSet(m) ==
    IF m.exc # "" THEN m ELSE [m EXCEPT !.cfg.remote_sources = DefaultRemoteSources]
\* "coho_options.clear(); coho_options.update(default_options)"
OptionsKept(m) == m
OptionsReset(m) == IF m.exc # "" THEN m ELSE [m EXCEPT !.opts = DefaultOptions]
reset(m, sourcesOK, workspaceOK) ==
    OptionsReset(DefaultRemoteSourcesSet(DefaultWorkspaceSet(
        ReadOnlyLocalSources(DefaultLocalSources(ClearCache(m), sourcesOK)), workspaceOK)))

\* -------------------------------------------------------- from_workspace
\* "COHO.local_sources = None; COHO.remote_sources = ();
\*  self.set_local_sources(False)"
WorkspaceOnly(m) ==
    [m EXCEPT !.cfg.local_sources = NoRoot, !.cfg.remote_sources = <<>>,
              !.cfg.create_local_sources = FALSE]
\* "finally:" the three values of before the call are put back
PutBack(m1, old) ==
    [m1 EXCEPT !.cfg.local_sources = old.local_sources,
               !.cfg.remote_sources = old.remote_sources,
               !.cfg.create_local_sources = old.create_local_sources]
\* "try: return self(*args, **kwds)"
FromWorkspaceCall(m, KEY, GStem, from_scratch, websource, env) ==
    PutBack(FactoryCall(WorkspaceOnly(m), KEY, GStem, from_scratch, websource, env), m.cfg)

\* ------------------------------------------------------------ subgroups
\* The groups the tower builder meets, by name: G is SmallGroup(18,3), the
\* direct product of the cyclic group of order 3 and the symmetric group of
\* degree 3. T1 and T2 are two of its Sylow 2-subgroups, C6 and C6b their
\* normalisers, Syl3 is its Sylow 3-subgroup and C3 its centre. D8 is a group
\* that is not contained in G, and E is the trivial group. S3 is the symmetric
\* group of degree 3 as a group of its own, with the Sylow 2-subgroups T1 and
\* T2, which are their own normalisers, and the Sylow 3-subgroup A3.
NoGroup == ""
\* the subgroups of a group
Below(g) == IF g = "G" THEN {"G", "C6", "C6b", "T1", "T2", "Syl3", "C3", "E"}
            ELSE IF g = "C6" THEN {"C6", "T1", "C3", "E"}
            ELSE IF g = "C6b" THEN {"C6b", "T2", "C3", "E"}
            ELSE IF g = "Syl3" THEN {"Syl3", "C3", "E"}
            ELSE IF g = "S3" THEN {"S3", "T1", "T2", "A3", "E"}
            ELSE {g, "E"}
\* g.IdGroup(): the address of the group in the library
IdGroup(g) == IF g = "G" THEN <<18, 3>>
              ELSE IF g \in {"C6", "C6b"} THEN <<6, 2>>
              ELSE IF g = "S3" THEN <<6, 1>>
              ELSE IF g \in {"T1", "T2"} THEN <<2, 1>>
              ELSE IF g = "Syl3" THEN <<9, 2>>
              ELSE IF g \in {"C3", "A3"} THEN <<3, 1>>
              ELSE IF g = "D8" THEN <<8, 3>>
              ELSE <<1, 1>>
GroupOrder(g) == IdGroup(g)[1]
StemOf(id) == IF id = <<18, 3>> THEN "18gp3"
              ELSE IF id = <<6, 2>> THEN "6gp2"
              ELSE IF id = <<6, 1>> THEN "6gp1"
              ELSE IF id = <<2, 1>> THEN "2gp1"
              ELSE IF id = <<9, 2>> THEN "9gp2"
              ELSE IF id = <<3, 1>> THEN "3gp1"
              ELSE IF id = <<8, 3>> THEN "8gp3"
              ELSE "1gp1"
\* G.IsSubgroup(H) and G.Index(H)
IsSubgroup(g, h) == h \in Below(g)
Index(g, h) == GroupOrder(g) \div GroupOrder(h)
IsPrimePower(q) == q \in {2, 3, 4, 8, 9, 128}
\* g.SylowSubgroup(p)
SylowSubgroupOf(g, p) ==
    IF g = "G" THEN (IF p = 2 THEN "T1" ELSE "Syl3")
    ELSE IF g = "C6" THEN (IF p = 2 THEN "T1" ELSE "C3")
    ELSE IF g = "C6b" THEN (IF p = 2 THEN "T2" ELSE "C3")
    ELSE IF g = "S3" THEN (IF p = 2 THEN "T1" ELSE "A3")
    ELSE IF GroupOrder(g) % p = 0 THEN g
    ELSE "E"
\* g.Normalizer(s.Centre())
NormalizerOfCentre(g, s) ==
    IF s \in {"T1", "T2"}
    THEN (IF g = "G" THEN (IF s = "T1" THEN "C6" ELSE "C6b")
          ELSE IF g = "S3" THEN s
          ELSE g)
    ELSE IF s \in {"C6", "C6b"} THEN s
    ELSE g
\* H.canonicalIsomorphism(K) of two groups with their generators
SubgroupIsomorphism(h, k) == IdGroup(h) = IdGroup(k)
\* H.OneIsomorphicSubgroup(g): a subgroup of g that is isomorphic to the group
\* of the address id, or no group
OneIsomorphicSubgroup(id, g) ==
    IF \E h \in Below(g) \ {"T2", "C6b"} : IdGroup(h) = id
    THEN CHOOSE h \in Below(g) \ {"T2", "C6b"} : IdGroup(h) = id
    ELSE IF \E h \in Below(g) : IdGroup(h) = id
    THEN CHOOSE h \in Below(g) : IdGroup(h) = id
    ELSE NoGroup

\* ------------------------------------------------- rings of a tower
\* the rings a ring refers to (_HP and _HSyl), and the rings those refer to
Referred(m, S) ==
    S \cup {m.handles[h].hp : h \in S \cap DOMAIN m.handles}
      \cup {m.handles[h].hsyl : h \in S \cap DOMAIN m.handles}
Closure(m, S) == Referred(m, Referred(m, S)) \ {0}
\* H._HSyl or H
HSylOf(m, h) == IF m.handles[h].hsyl # 0 THEN m.handles[h].hsyl ELSE h
IsMODCOHO(m, h) == Len(m.handles[h].key) = 4
\* H.group()
RingGroupId(m, h) == m.handles[h].key[1]
\* the stem of the group of a key
KeyStem(key) == IF Len(key) = 2 THEN key[2][2] ELSE key[2]
\* the image of H.sylow_subgroup() in the subgroup sub that H.group() is
\* mapped to
SylowImage(m, h, sub) ==
    IF IsMODCOHO(m, h) THEN SylowSubgroupOf(sub, m.handles[h].key[4]) ELSE sub
\* OUT.subgroup() and OUT.sylow_subgroup()
RingSubgroup(m, h) == m.handles[h].sub
RingSylowSubgroup(m, h) == SylowImage(m, m.handles[h].hp, m.handles[h].sub)

\* MODCOHO.__init__(G, pr, HP, Subgroup, ...) and the unpickling of such a
\* ring: the ring enters the cache under (KEY, GStem, HP._key, pr) and refers
\* to the ring of its subgroup and to the ring of the Sylow subgroup of that
SetTower(m1, hp, hsyl, sub) ==
    IF m1.full THEN m1
    ELSE [m1 EXCEPT !.handles[m1.out].hp = hp, !.handles[m1.out].hsyl = hsyl,
                    !.handles[m1.out].sub = sub]
MODCOHO(m, key, hp, sub, deg) == SetTower(NewRing(m, key, deg), hp, HSylOf(m, hp), sub)

\* unpickling a ring makes the rings it refers to
EnsureP(m, key) ==
    IF key \in DOMAIN m.cache THEN [m EXCEPT !.out = m.cache[key]] ELSE NewRing(m, key, 1)
EnsureNP(m1, key, sub) ==
    IF m1.full THEN m1
    ELSE IF key \in DOMAIN m1.cache THEN [m1 EXCEPT !.out = m1.cache[key]]
    ELSE MODCOHO(m1, key, m1.out, sub, 1)
EnsureHP(m, hpkey, sub) ==
    IF Len(hpkey) = 2 THEN EnsureP(m, hpkey)
    ELSE EnsureNP(EnsureP(m, hpkey[3]), hpkey, SylowSubgroupOf(sub, hpkey[4]))
Refer(m2, h, sub) ==
    IF m2.full THEN m2
    ELSE [m2 EXCEPT !.handles[h].hp = m2.out, !.handles[h].hsyl = HSylOf(m2, m2.out),
                    !.handles[h].sub = sub, !.out = h]
\* the ring m1.out was loaded from a file of content c
AttachStored(m1, c) ==
    IF m1.exc # "" \/ m1.full \/ m1.out = 0 \/ c.st # "ok" THEN m1
    ELSE Refer(EnsureHP(m1, m1.handles[m1.out].key[3], c.sub), m1.out, c.sub)

\* H.make(): the ring is completed, and saved
Make(m, h) ==
    IF m.handles[h].deg # 0 THEN m
    ELSE IF Len(m.handles[h].key) = 2
    THEN SafeSave([m EXCEPT !.handles[h].deg = 1], h, TRUE)
    ELSE [m EXCEPT !.handles[h].deg = 1]

\* safe_save(OUT, OUT.autosave_name()) of the ring of a group that is not of
\* prime power order
StoredInner(m, hp) ==
    IF IsMODCOHO(m, hp)
    THEN <<m.handles[hp].key[3][1], KeyStem(m.handles[hp].key[3])>>
    ELSE <<>>
SafeSaveTower(m, h, root, GStem, pr) ==
    [m EXCEPT !.npdisk[root][<<GStem, pr>>] =
        NPSavedTower(m.handles[h].key[1], RingGroupId(m, m.handles[h].hp),
                     KeyStem(m.handles[m.handles[h].hp].key), m.handles[h].sub,
                     StoredInner(m, m.handles[h].hp))]

\* ----------------------------- __call__, groups not of prime power order
\* The local variables of one call: the machine m, the group Hfinal (tgt)
\* with its key, stem and order, the prime, and the optional arguments as
\* they change during the call. done: the call has returned m.out.
Frame(m, tgt, KEY, GStem, pr, Subgroup, SylowSubgroup, HP, HSyl, OneStep, fs, ws, env) ==
    [m |-> m, tgt |-> tgt, KEY |-> KEY, GStem |-> GStem, pr |-> pr,
     Subgroup |-> Subgroup, SylowSubgroup |-> SylowSubgroup, HP |-> HP, HSyl |-> HSyl,
     OneStep |-> OneStep, fs |-> fs, ws |-> ws, env |-> env, phiSub |-> FALSE,
     SubgpComputedFromScratch |-> FALSE, done |-> FALSE]
Going(f) == f.m.exc = "" /\ ~f.m.full /\ ~f.done
Fail(f, e, what) == [f EXCEPT !.m = Raise(Log(f.m, "reject", what), e)]
Return(f, h) == [f EXCEPT !.m.out = h, !.done = TRUE]
Into(f, m1) == [f EXCEPT !.m = m1]
\* the machine at the start of a call of the factory: nothing is returned yet
Enter(m, tier, what) == [Log(m, tier, what) EXCEPT !.out = 0]

\* pr.is_prime(), for the values of the keyword prime
IsPrime(pr) == pr \in {2, 3, 5, 7}
\* "if not q.is_prime_power(): pr = kwds.get('prime') ..."; 0: no prime is given
PrimeCoerced(f) ==
    IF f.pr = 0 THEN Fail(f, "ValueError", "prime must be provided")
    ELSE IF ~IsPrime(f.pr) THEN Fail(f, "ValueError", "prime must be a prime number")
    ELSE IF GroupOrder(f.tgt) % f.pr # 0 THEN [f EXCEPT !.pr = 2]
    ELSE f
CheckPrime(f) ==
    IF f.pr = 0 THEN Fail(f, "ValueError", "prime must be provided")
    ELSE IF ~IsPrime(f.pr) THEN Fail(f, "ValueError", "prime must be a prime number")
    ELSE IF GroupOrder(f.tgt) % f.pr # 0 THEN Fail(f, "ValueError", "prime must divide the order")
    ELSE f

\* "OUT = self._get_non_p_group_from_db(GStem, pr, **extras)", and the test
\* of the group of the stored ring
StoredGroupUnchecked(f, m1) == Into(f, m1)
StoredGroupChecked(f, m1) ==
    IF m1.exc # "" \/ m1.full \/ m1.out = 0 THEN Into(f, m1)
    ELSE IF ~CanonicalIsomorphism(f.KEY, RingGroupId(m1, m1.out))
    THEN Fail(Into(f, m1), "ValueError", "stored ring does not match the given group")
    ELSE Into(f, m1)
AttachFrom(m1, root, GStem, pr) ==
    AttachStored(m1, NPContent(m1.npdisk, root, <<GStem, pr>>))
StoredRing(f) ==
    IF ~Going(f) THEN f
    ELSE StoredGroupChecked(f,
            AttachFrom(GetNonPGroupFromDb(f.m, f.GStem, f.pr, f.fs, f.ws, f.env),
                       RootWorkspace(f.m.cfg), f.GStem, f.pr))

\* a stored ring that is returned whatever the optional arguments are
StoredUnchecked(f) ==
    IF ~Going(f) \/ f.m.out = 0 THEN f
    ELSE Return(Into(f, Log(f.m, "stored", f.GStem)), f.m.out)
\* "1. consistency with OUT, the stored ring"
StoredConsistency(f) ==
    IF ~Going(f) \/ f.m.out = 0 THEN f
    ELSE IF f.HP # 0 /\ f.HP # f.m.handles[f.m.out].hp
    THEN Fail(f, "ValueError", "stored ring is not a subring of SubgpCohomology")
    ELSE IF f.Subgroup # NoGroup /\ ~SubgroupIsomorphism(f.Subgroup, RingSubgroup(f.m, f.m.out))
    THEN Fail(f, "ValueError", "stored ring is not computed using the given subgroup")
    ELSE IF f.HSyl # 0 /\ f.HSyl # f.m.handles[f.m.out].hsyl
    THEN Fail(f, "ValueError", "stored ring is not a subring of SylowSubgpCohomology")
    ELSE IF /\ f.SylowSubgroup # NoGroup
            /\ ~SubgroupIsomorphism(f.SylowSubgroup, RingSylowSubgroup(f.m, f.m.out))
    THEN Fail(f, "ValueError", "stored ring is not computed using the given Sylow subgroup")
    ELSE Return(Into(f, Log(f.m, "stored", f.GStem)), f.m.out)

\* "1. check HP and HSyl"
CheckHSyl(f) ==
    IF f.HSyl # 0 /\ IsMODCOHO(f.m, f.HSyl)
    THEN Fail(f, "TypeError", "SylowSubgpCohomology is not of a prime power group")
    ELSE f
CheckRings(f) ==
    IF ~Going(f) THEN f
    ELSE IF f.HP # 0
    THEN CheckHSyl([f EXCEPT !.HSyl = HSylOf(f.m, f.HP)])  \* "ignore the keyword argument"
    ELSE CheckHSyl(f)

\* "2. check subgroup"
CheckSubgroup(f) ==
    IF ~Going(f) \/ f.Subgroup = NoGroup THEN f
    ELSE IF ~IsSubgroup(f.tgt, f.Subgroup)
    THEN Fail(f, "ValueError", "not a subgroup")
    ELSE IF Index(f.tgt, f.Subgroup) % f.pr = 0
    THEN Fail(f, "ValueError", "subgroup must contain a Sylow subgroup")
    ELSE f

\* "3. check Sylow subgroup"
CheckSylowSubgroup(f) ==
    IF ~Going(f) \/ f.SylowSubgroup = NoGroup THEN f
    ELSE IF ~IsSubgroup(f.tgt, f.SylowSubgroup)
    THEN Fail(f, "ValueError", "Sylow subgroup is not a subgroup")
    ELSE IF Index(f.tgt, f.SylowSubgroup) % f.pr = 0
    THEN Fail(f, "ValueError", "index of the Sylow subgroup is not coprime")
    ELSE IF GroupOrder(f.SylowSubgroup) % f.pr # 0
    THEN Fail(f, "ValueError", "order of the Sylow subgroup is indivisible")
    ELSE IF f.Subgroup # NoGroup /\ ~IsSubgroup(f.Subgroup, f.SylowSubgroup)
    THEN Fail(f, "ValueError", "subgroup must contain the Sylow subgroup")
    ELSE f

\* "1a) Try to match with a given cohomology ring"
MatchSubgroup(f) ==
    IF ~Going(f) \/ f.HP = 0 THEN f
    ELSE IF f.Subgroup = NoGroup
    THEN IF OneIsomorphicSubgroup(RingGroupId(f.m, f.HP), f.tgt) = NoGroup
         THEN Fail(f, "ValueError", "no subgroup compatible with SubgpCohomology")
         ELSE [f EXCEPT !.Subgroup = OneIsomorphicSubgroup(RingGroupId(f.m, f.HP), f.tgt),
                        !.phiSub = TRUE]
    ELSE IF IdGroup(f.Subgroup) # RingGroupId(f.m, f.HP)
    THEN Fail(f, "ValueError", "Subgroup and SubgpCohomology do not match")
    ELSE [f EXCEPT !.phiSub = TRUE]

\* "1b) dito for the Sylow subgroup"
MatchSylowSubgroup(f) ==
    IF ~Going(f) THEN f
    ELSE IF f.SylowSubgroup = NoGroup
    THEN IF f.HP # 0 /\ f.phiSub
         THEN [f EXCEPT !.SylowSubgroup = SylowImage(f.m, f.HP, f.Subgroup)]
         ELSE IF f.HSyl # 0
         THEN IF IdGroup(SylowSubgroupOf(IF f.Subgroup = NoGroup THEN f.tgt ELSE f.Subgroup,
                                         f.pr)) # RingGroupId(f.m, f.HSyl)
              THEN Fail(f, "ValueError", "no Sylow subgroup compatible with the given rings")
              ELSE [f EXCEPT !.SylowSubgroup =
                        SylowSubgroupOf(IF f.Subgroup = NoGroup THEN f.tgt ELSE f.Subgroup,
                                        f.pr)]
         ELSE f
    ELSE IF f.HSyl # 0 /\ IdGroup(f.SylowSubgroup) # RingGroupId(f.m, f.HSyl)
    THEN Fail(f, "ValueError", "SylowSubgroup and SylowSubgpCohomology do not match")
    ELSE f

\* "Second step: Get the cohomology of the subgroups": the Sylow subgroup
ComputeSylowSubgroup(f) ==
    IF ~Going(f) \/ f.SylowSubgroup # NoGroup THEN f
    ELSE [f EXCEPT !.SylowSubgroup =
              SylowSubgroupOf(IF f.Subgroup = NoGroup THEN f.tgt ELSE f.Subgroup, f.pr)]

\* "if HSyl is None: ... HSyl = CohomologyRing(SylowId[0], SylowId[1], ...)":
\* a call of the factory without a prime
TakeHSyl(f, m1) ==
    IF m1.exc # "" \/ m1.full THEN Into(f, m1) ELSE [f EXCEPT !.m = m1, !.HSyl = m1.out]
ResolveSylow(f) ==
    IF ~Going(f) \/ f.HSyl # 0 THEN f
    ELSE IF ~IsPrimePower(GroupOrder(f.SylowSubgroup))
    THEN Fail(f, "ValueError", "prime must be provided")
    ELSE TakeHSyl(f, FactoryCall(Enter(f.m, "sylow", StemOf(IdGroup(f.SylowSubgroup))),
                                 IdGroup(f.SylowSubgroup), StemOf(IdGroup(f.SylowSubgroup)),
                                 FALSE, WsNone, f.env))

\* "if kwds.get('OneStep'): ..." and "if Subgroup is None: ... Normalizer"
Collapse(f) ==
    [f EXCEPT !.Subgroup = f.SylowSubgroup, !.HP = f.HSyl,
              !.SubgpComputedFromScratch = FALSE]
IntermediateWholeOnly(f) ==
    IF f.Subgroup # NoGroup THEN [f EXCEPT !.SubgpComputedFromScratch = FALSE]
    ELSE IF GroupOrder(NormalizerOfCentre(f.tgt, f.SylowSubgroup)) = GroupOrder(f.tgt)
    THEN Collapse(Into(f, Log(f.m, "collapse", f.SylowSubgroup)))
    ELSE [f EXCEPT !.Subgroup = NormalizerOfCentre(f.tgt, f.SylowSubgroup),
                   !.SubgpComputedFromScratch = TRUE]
Intermediate(f) ==
    IF f.Subgroup # NoGroup THEN [f EXCEPT !.SubgpComputedFromScratch = FALSE]
    ELSE IF \/ GroupOrder(NormalizerOfCentre(f.tgt, f.SylowSubgroup)) = GroupOrder(f.tgt)
            \/ IsPrimePower(GroupOrder(NormalizerOfCentre(f.tgt, f.SylowSubgroup)))
    THEN Collapse(Into(f, Log(f.m, "collapse", f.SylowSubgroup)))
    ELSE [f EXCEPT !.Subgroup = NormalizerOfCentre(f.tgt, f.SylowSubgroup),
                   !.SubgpComputedFromScratch = TRUE]
ResolveIntermediate(f) ==
    IF ~Going(f) THEN f
    ELSE IF f.OneStep THEN Intermediate(Collapse(f))
    ELSE Intermediate(f)

\* "if not HP.completed: HP.make()"
MakeHPAwaited(f) == f
MakeHP(f) ==
    IF ~Going(f) THEN f
    ELSE IF f.m.handles[f.HP].deg = 0
    THEN Into(f, Make(Log(f.m, "make", KeyStem(f.m.handles[f.HP].key)), f.HP))
    ELSE f

\* "CacheKey = (KEY, GStem, HP._key, pr); OUT = self._cache.get(CacheKey)"
TowerKey(f) == NPKey(f.KEY, f.GStem, f.m.handles[f.HP].key, f.pr)
TowerCacheMiss(f) == f
TowerCache(f) ==
    IF ~Going(f) \/ TowerKey(f) \notin DOMAIN f.m.cache THEN f
    ELSE IF f.m.handles[f.m.cache[TowerKey(f)]].key = TowerKey(f)
    THEN Return(Into(f, Log(f.m, "cache", "hit")), f.m.cache[TowerKey(f)])
    ELSE IF IsKeyEquivalent(TowerKey(f), f.m.handles[f.m.cache[TowerKey(f)]].key) = Different
    THEN Fail(f, "ValueError", "cache is broken")
    ELSE Return(Into(f, Log(f.m, "cache", "equivalent")), f.m.cache[TowerKey(f)])

\* the group key that the new ring reports: the address it was given as
\* GroupId, or the definition of the group GPerm as it is printed
EngineGroupKey(KEY, engine) ==
    IF engine = "same" \/ (engine = "spaced" /\ Len(KEY) = 2) THEN KEY
    ELSE IF engine = "spaced" THEN <<"SmallGroup(18, 3)">>
    ELSE IF Len(KEY) = 2 THEN <<18, 4>>
    ELSE <<"SmallGroup(18, 4)">>
EngineKey(f) ==
    NPKey(EngineGroupKey(f.KEY, f.env.engine), f.GStem, f.m.handles[f.HP].key, f.pr)
\* "OUT = MODCOHO(Hfinal, pr, HP, Subgroup, ..., GroupId=KEY, ...)"
Assemble(f) ==
    IF ~Going(f) THEN f
    ELSE Into(f, MODCOHO(Log(f.m, "assemble", f.Subgroup), EngineKey(f), f.HP, f.Subgroup, 0))

\* "GKEY = ''.join([t.strip() for t in OUT._key[0][0].split()])"
StripKey(KEY) ==
    IF KEY = <<"SmallGroup(18, 3)">> THEN <<"SmallGroup(18,3)">>
    ELSE IF KEY = <<"SmallGroup(18, 4)">> THEN <<"SmallGroup(18,4)">>
    ELSE KEY
\* "tmpKey[0] = (GKEY,); OUT.setprop('_key', tuple(tmpKey))"
Rekey(f) ==
    IF Len(f.m.handles[f.m.out].key[1]) # 1 THEN f
    ELSE Into(f, [Log(f.m, "rekey", f.GStem) EXCEPT
                     !.handles[f.m.out].key[1] = StripKey(f.m.handles[f.m.out].key[1])])
\* "if OUT._key != CacheKey: raise RuntimeError('Cache keys are corrupted')
\*  else: safe_save(OUT, OUT.autosave_name())"
UpdateOnDisk(f) ==
    IF f.m.handles[f.m.out].key # TowerKey(f)
    THEN Fail(f, "RuntimeError", "Cache keys are corrupted")
    ELSE IF f.env.saveOK
    THEN Into(f, SafeSaveTower(Log(f.m, "update", f.GStem), f.m.out, RootWorkspace(f.m.cfg),
                               f.GStem, f.pr))
    ELSE Fail(f, "OSError", "safe_save")
CheckTowerKeyTrusting(f) == f
CheckTowerKey(f) ==
    IF ~Going(f) \/ f.m.handles[f.m.out].key = TowerKey(f) THEN f
    ELSE UpdateOnDisk(Rekey(f))

\* "try: if OUT.knownDeg==0: safe_save(OUT, OUT.autosave_name())
\*  except: coho_logger.error(...)"
SaveTower(f) ==
    IF ~Going(f) \/ f.m.handles[f.m.out].deg # 0 THEN f
    ELSE IF f.env.saveOK
    THEN Into(f, SafeSaveTower(Log(f.m, "save", f.GStem), f.m.out, RootWorkspace(f.m.cfg),
                               f.GStem, f.pr))
    ELSE Into(f, Log(f.m, "savefailed", f.GStem))

\* "HP = CohomologyRing(Subgroup, SubgpId=SubgpId, prime=pr, SylowSubgroup=...,
\*  SylowSubgpCohomology=HSyl, GStem=...)": the factory calls itself
TakeHP(f, m1) ==
    IF m1.exc # "" \/ m1.full THEN Into(f, m1) ELSE [f EXCEPT !.m = m1, !.HP = m1.out]

RECURSIVE TowerCall(_)
\* a call for the intermediate subgroup that is not told the Sylow subgroup
ResolveHPUnhinted(f) ==
    IF ~Going(f) \/ f.HP # 0 THEN f
    ELSE IF IsPrimePower(GroupOrder(f.Subgroup))
    THEN TakeHP(f, FactoryCall(Enter(f.m, "subgroup", StemOf(IdGroup(f.Subgroup))),
                               IdGroup(f.Subgroup), StemOf(IdGroup(f.Subgroup)),
                               FALSE, WsNone, f.env))
    ELSE TakeHP(f, TowerCall(Frame(Enter(f.m, "subgroup", StemOf(IdGroup(f.Subgroup))),
                                   f.Subgroup, IdGroup(f.Subgroup),
                                   StemOf(IdGroup(f.Subgroup)), f.pr, NoGroup,
                                   NoGroup, 0, 0, FALSE, FALSE, WsNone, f.env)).m)
ResolveHP(f) ==
    IF ~Going(f) \/ f.HP # 0 THEN f
    ELSE IF IsPrimePower(GroupOrder(f.Subgroup))
    THEN TakeHP(f, FactoryCall(Enter(f.m, "subgroup", StemOf(IdGroup(f.Subgroup))),
                               IdGroup(f.Subgroup), StemOf(IdGroup(f.Subgroup)),
                               FALSE, WsNone, f.env))
    ELSE TakeHP(f, TowerCall(Frame(Enter(f.m, "subgroup", StemOf(IdGroup(f.Subgroup))),
                                   f.Subgroup, IdGroup(f.Subgroup),
                                   StemOf(IdGroup(f.Subgroup)), f.pr, NoGroup,
                                   f.SylowSubgroup, 0, f.HSyl, FALSE, FALSE, WsNone,
                                   f.env)).m)

\* the branch of __call__ for a group that is not of prime power order
TowerCall(f) ==
    SaveTower(CheckTowerKey(Assemble(TowerCache(MakeHP(ResolveHP(
        ResolveIntermediate(ResolveSylow(ComputeSylowSubgroup(MatchSylowSubgroup(
            MatchSubgroup(CheckSylowSubgroup(CheckSubgroup(CheckRings(
                StoredConsistency(StoredRing(CheckPrime(
                    Into(f, FromScratchOption(f.m, f.fs)))))))))))))))))))

\* ------------------------------------ create_group_key, check_arguments
\* A group in GAP as the two methods see it: the address g.IdGroup() returns
\* (<<>> when the library has no groups of that order), whether the group
\* is canonically isomorphic to the library group, whether it is a
\* permutation group, its generators as GAP prints them (those of
\* g.asPermgroup() when it is no permutation group), its order, and whether
\* its first generators form a minimal generating set.
GapGroup(name, id, canon, perm, gens, order, min) ==
    [name |-> name, id |-> id, canon |-> canon, perm |-> perm, gens |-> gens,
     order |-> order, min |-> min]
\* the blanks and line breaks GAP puts into what it prints
Whitespace == {" ", "\n"}
\* Group([ (1,2)(3,8)(4,6)(5,7), (1,3)(2,5)(4,7)(6,8) ]) = CohomologyRing(8,3).group()
H83 == GapGroup("H83", <<8, 3>>, TRUE, TRUE,
                <<<<"(1,2)(3,8)(4,6)(5,7)">>, <<"(1,3)(2,5)(4,7)(6,8)">>>>, 8, TRUE)
\* DihedralGroup(8), a polycyclic group that is not the one of the library
D8pc == GapGroup("D8pc", <<8, 3>>, FALSE, FALSE,
                 <<<<"(1,2)(3,8)(4,6)(5,7)">>, <<"(1,3,4,7)", "\n", "(2,5,6,8)">>>>, 8, TRUE)
\* DihedralGroup(IsPermGroup, 8) with a generator too many in front
D8perm == GapGroup("D8perm", <<8, 3>>, FALSE, TRUE,
                   <<<<"(1,3)">>, <<"(1,2,3,4)">>, <<"(2,4)">>>>, 8, FALSE)
\* SymmetricGroup(8): the library has no groups of order 40320
S8 == GapGroup("S8", <<>>, FALSE, TRUE, <<<<"(1,2,3,4,5,6,7,8)">>, <<"(1,2)">>>>, 40320, TRUE)
\* SmallGroup(18,3) with other generators
G18pc == GapGroup("G18pc", <<18, 3>>, FALSE, FALSE,
                  <<<<"(1,2)">>, <<"(3,4,5)">>, <<"(6,7,8)">>>>, 18, FALSE)
\* Group(()), the trivial group
Trivial == GapGroup("Trivial", <<1, 1>>, TRUE, TRUE, <<<<"()">>>>, 1, TRUE)
GapGroups == {H83, D8pc, D8perm, S8, G18pc, Trivial}
\* what is no group in GAP, a Python string say: hasattr(g,'parent') is false
NotAGroup == GapGroup("str", <<>>, FALSE, FALSE, <<>>, 0, FALSE)
IsGapGroup(g) == g.name # NotAGroup.name

\* the optional argument GroupId: a tuple or a list of two integers
NoGroupId == [form |-> "none", id |-> <<>>]
GroupIdOf(form, id) == [form |-> form, id |-> id]
GroupIds == {NoGroupId} \cup {GroupIdOf(form, id) : form \in {"tuple", "list"},
                                                    id \in {<<8, 3>>, <<8, 4>>, <<1, 1>>}}
\* the optional argument GroupDefinition
NoGroupDefinition == <<>>
GroupDefinitions == {NoGroupDefinition, <<"SymmetricGroup(8)">>}
\* gap.NumberSmallGroups(q); 0: the library is not available for the order
NumberSmallGroups(q) == IF q \in {1, 2, 3} THEN 1
                        ELSE IF q = 8 THEN 5
                        ELSE IF q = 18 THEN 5
                        ELSE IF q = 20 THEN 5
                        ELSE 0
\* the descriptors: the arguments of the factory that are no keywords
Descriptors == {<<>>, <<8, 3>>, <<8, 6>>, <<1, 1>>, <<18, 3>>, <<2048, 1>>, <<8, 3, 1>>,
                <<NotAGroup>>} \cup {<<g>> : g \in GapGroups}

\* a string is a sequence of pieces; s1 + s2 and ','.join(L)
RECURSIVE Join(_, _)
Join(sep, L) == IF L = <<>> THEN <<>>
                ELSE IF Len(L) = 1 THEN L[1]
                ELSE L[1] \o sep \o Join(sep, Tail(L))
\* g.GeneratorsOfGroup().String(): "[ a, b ]"
ListString(gens) == <<"[", " ">> \o Join(<<",", " ">>, gens) \o <<" ", "]">>
\* ''.join([t.strip() for t in s.split()]) and s.replace('\n','').replace(' ','')
Unspaced(s) == SelectSeq(s, LAMBDA t : t \notin Whitespace)
\* the result of a method: what it returns, or the exception it raises
Returns(v, log) == [exc |-> "", val |-> v, log |-> log]
Raises(e, what, none) == [exc |-> e, val |-> none, log |-> <<what>>]
\* a key: a string, a pair of integers, or a tuple that holds one string
StrKey(s) == [type |-> "str", ints |-> <<>>, str |-> s]
PairKey(q, n) == [type |-> "tuple", ints |-> <<q, n>>, str |-> <<>>]
TupleKey(s) == [type |-> "tuple", ints |-> <<>>, str |-> s]
NoKey == [type |-> "none", ints |-> <<>>, str |-> <<>>]

\* "gId = g.IdGroup().sage(); gs = gap.SmallGroup(gId);
\*  if g.canonicalIsomorphism(gs) != Failure"
SmallGroupProbe(g) == g.id # <<>> /\ g.canon
\* "KEY = ('Group('+g.GeneratorsOfGroup().String().sage()+')',)" without blanks
PermGroupKey(g) == TupleKey(Unspaced(<<"Group(">> \o ListString(g.gens) \o <<")">>))
\* "KEY = (('Group(['+','.join([t.String().sage() for t in
\*          g.asPermgroup().GeneratorsOfGroup()])+'])').replace(...),)"
AsPermgroupKey(g) ==
    TupleKey(Unspaced(<<"Group(", "[">> \o Join(<<",">>, g.gens) \o <<"]", ")">>))
GeneratorKeyFirst(G, GroupId, GroupDefinition) ==
    IF Len(G) = 1 /\ IsGapGroup(G[1]) /\ ~SmallGroupProbe(G[1])
    THEN (IF G[1].perm THEN Returns(PermGroupKey(G[1]), <<>>)
          ELSE Returns(AsPermgroupKey(G[1]), <<"Computing an equivalent permutation group">>))
    ELSE IF GroupDefinition # NoGroupDefinition THEN Returns(StrKey(GroupDefinition), <<>>)
    ELSE IF Len(G) = 2 THEN Returns(PairKey(G[1], G[2]), <<>>)
    ELSE IF GroupId.form # "none" THEN Returns(PairKey(GroupId.id[1], GroupId.id[2]), <<>>)
    ELSE IF ~IsGapGroup(G[1])
    THEN Raises("TypeError", "First argument should describe a group in GAP", NoKey)
    ELSE Returns(PairKey(G[1].id[1], G[1].id[2]), <<>>)
create_group_key(G, GroupId, GroupDefinition) ==
    IF GroupDefinition # NoGroupDefinition THEN Returns(StrKey(GroupDefinition), <<>>)
    ELSE IF Len(G) = 2 THEN Returns(PairKey(G[1], G[2]), <<>>)
    ELSE IF GroupId.form # "none" THEN Returns(PairKey(GroupId.id[1], GroupId.id[2]), <<>>)
    ELSE IF ~IsGapGroup(G[1])
    THEN Raises("TypeError", "First argument should describe a group in GAP", NoKey)
    ELSE IF SmallGroupProbe(G[1]) THEN Returns(PairKey(G[1].id[1], G[1].id[2]), <<>>)
    ELSE IF G[1].perm THEN Returns(PermGroupKey(G[1]), <<>>)
    ELSE Returns(AsPermgroupKey(G[1]), <<"Computing an equivalent permutation group">>)

\* the group check_arguments returns
SmallGroup(q, n) == [lib |-> <<q, n>>, g |-> NotAGroup, range |-> FALSE]
Given(g) == [lib |-> <<>>, g |-> g, range |-> FALSE]
\* g.admissibleGroup().Range()
AdmissibleRange(g) == [lib |-> <<>>, g |-> g, range |-> TRUE]
\* the order and the group, or nothing
Checked(q, grp) == [q |-> q, grp |-> grp]
NoGroupChecked == Checked(0, Given(NotAGroup))
\* "(q,n)!=GroupId": a tuple is never equal to a list
TupleDiffers(q, n, GroupId) == GroupId.form = "list" \/ GroupId.id # <<q, n>>
\* "if len(args)==2:"
CheckAddress(q, n, GroupId) ==
    IF GroupId.form # "none" /\ TupleDiffers(q, n, GroupId)
    THEN Raises("ValueError", "GroupId incompatible with the given SmallGroups entry", NoGroupChecked)
    ELSE IF NumberSmallGroups(q) = 0
    THEN Raises("ValueError", "SmallGroups library not available", NoGroupChecked)
    ELSE IF ~(1 <= n /\ n <= NumberSmallGroups(q))
    THEN Raises("ValueError", "Second argument must be between 1 and max_n", NoGroupChecked)
    ELSE Returns(Checked(q, SmallGroup(q, n)), <<>>)
\* "if GroupId: q = Integer(GroupId[0]) else: q = g.Order().sage()"
OrderOf(g, GroupId) == IF GroupId.form # "none" THEN GroupId.id[1] ELSE g.order
\* "if q==1:" and what follows
CheckGenerators(g, q, minimal_generators) ==
    IF q = 1 THEN Raises("ValueError", "We don't consider the trivial group", NoGroupChecked)
    ELSE IF minimal_generators \/ ~IsPrimePower(q) THEN Returns(Checked(q, Given(g)), <<>>)
    ELSE IF g.min THEN Returns(Checked(q, AdmissibleRange(g)), <<>>)
    ELSE Raises("ValueError", "The first generators of the group must form a minimal generating set", NoGroupChecked)
\* "g = args[0]" and what follows
CheckGroup(g, minimal_generators, GroupId) ==
    IF ~IsGapGroup(g) THEN Raises("TypeError", "Group in GAP expected", NoGroupChecked)
    ELSE IF GroupId.form # "none" /\ ~(g.canon /\ g.id = GroupId.id)
    THEN Raises("ValueError", "The given group generators are not canonically isomorphic", NoGroupChecked)
    ELSE CheckGenerators(g, OrderOf(g, GroupId), minimal_generators)
check_arguments(args, minimal_generators, GroupId) ==
    IF Len(args) < 1 \/ Len(args) > 2
    THEN Raises("ValueError", "The p-Group must be described by one or two parameters", NoGroupChecked)
    ELSE IF Len(args) = 2 THEN CheckAddress(args[1], args[2], GroupId)
    ELSE CheckGroup(args[1], minimal_generators, GroupId)

\* ------------------------------------------------- the file systems
\* publ: the folder of a ring in a database, with a file H, a folder dat and
\* a file A in it (H can also be a link to A); or a folder that cannot be
\* read, a file, or nothing.
NoFiles == <<>>
Elsewhere == <<"Z">> :> Folder(TRUE)
PublFolder(r, rdat, h) ==
    (<<"P">> :> Folder(r)) @@ (<<"P", "H">> :> h) @@ (<<"P", "dat">> :> Folder(rdat))
    @@ (<<"P", "dat", "A">> :> File)
PublTrees ==
    {PublFolder(r, rdat, h) : r \in BOOLEAN, rdat \in BOOLEAN,
                              h \in {File, SymLink(<<"P", "dat", "A">>)}}
    \cup {<<"P">> :> File, NoFiles}
\* what priv can hold under the name H, under the name dat and under a name
\* that publ does not have
PrivH ==
    {NoFiles, <<"Q", "H">> :> File, <<"Q", "H">> :> SymLink(<<"P", "H">>),
     <<"Q", "H">> :> SymLink(<<"Z">>), <<"Q", "H">> :> SymLink(<<"Z", "H">>),
     <<"Q", "H">> :> Folder(TRUE),
     (<<"Q", "H">> :> Folder(TRUE)) @@ (<<"Q", "H", "A">> :> File)}
PrivDat ==
    {NoFiles, <<"Q", "dat">> :> File, <<"Q", "dat">> :> Folder(TRUE),
     (<<"Q", "dat">> :> Folder(TRUE)) @@ (<<"Q", "dat", "A">> :> File),
     (<<"Q", "dat">> :> Folder(TRUE)) @@ (<<"Q", "dat", "Y">> :> File),
     (<<"Q", "dat">> :> Folder(TRUE)) @@ (<<"Q", "dat", "A">> :> SymLink(<<"P", "dat", "A">>)),
     <<"Q", "dat">> :> SymLink(<<"P", "dat">>), <<"Q", "dat">> :> SymLink(<<"Z">>)}
PrivX == {NoFiles, <<"Q", "X">> :> File}
\* priv: nothing, a file, a link to publ, a link to a folder elsewhere, or a
\* folder
PrivTrees ==
    {NoFiles, <<"Q">> :> File, <<"Q">> :> SymLink(<<"P">>), <<"Q">> :> SymLink(<<"Z">>)}
    \cup {(<<"Q">> :> Folder(TRUE)) @@ h @@ d @@ x : h \in PrivH, d \in PrivDat, x \in PrivX}
Trees == {Elsewhere @@ a @@ b : a \in PublTrees, b \in PrivTrees}
DefaultTree == Elsewhere @@ PublFolder(TRUE, TRUE, File)

\* ---------------------------------------------------------- the actions
NoCall == [op |-> "none", KEY |-> <<>>, GStem |-> "", pr |-> 0, root |-> NoRoot,
           fs |-> FALSE, ws |-> WsNone, kw |-> NoKwds, out |-> 0, exc |-> "", trace |-> <<>>,
           hit |-> FALSE, stale |-> FALSE, file |-> FALSE, arch |-> FALSE,
           stable |-> 0, cached |-> 0, wrote |-> FALSE, resp |-> DefaultEnv.resp,
           web_before |-> TRUE, web_after |-> TRUE, hints |-> <<>>]

Init ==
    /\ workspace = DefaultWorkspace
    /\ local_sources = Archive
    /\ create_local_sources = FALSE
    /\ remote_sources = DefaultRemoteSources
    /\ coho_options = DefaultOptions
    /\ cache = <<>>
    /\ handles = <<>>
    /\ disk = InitDisk
    /\ npdisk = InitNPDisk
    /\ stable = <<>>
    /\ restored = {}
    /\ last = NoCall
    /\ tree = DefaultTree

Has(trace, tier) == \E i \in 1..Len(trace) : trace[i][1] = tier
Range(seq) == {seq[i] : i \in 1..Len(seq)}

\* The inputs of the environment that a call can meet, given what the call
\* consults when every repository answers 404.
WebKeyOf(GStem) == IF GStem = "8gp3" THEN <<8, 3>> ELSE <<128, 5>>
Envs(probe, urls, GStem) ==
    LET web == Has(probe, "tar") \/ Has(probe, "sobj")
        mirror == Has(probe, "mirror")
    IN [resp : IF web THEN {r \in [URLs -> Answers] :
                               \A u \in URLs \ urls : r[u] = "http404"}
               ELSE {DefaultEnv.resp},
        webgk : {WebKeyOf(GStem)},
        saveOK : IF web \/ Has(probe, "initBasic") THEN BOOLEAN ELSE {TRUE},
        linkOK : IF mirror THEN BOOLEAN ELSE {TRUE},
        engine : {"same"}]
UrlsOf(websource) == IF websource = WsNone THEN Range(remote_sources)
                     ELSE IF websource = WsFalse THEN {} ELSE {websource}

\* The caller keeps the ring that is returned; a ring that was created on the
\* way and is not returned is garbage.
Settle(m) == Collect(m, DOMAIN handles \cup (IF m.out # 0 THEN {m.out} ELSE {}))

StableAfter(s, m) ==
    Restrict(s, {k \in DOMAIN s : s[k] \in DOMAIN m.handles /\ Readable(m.disk, k[2][1], k[2][2])})

Commit(m) ==
    /\ ~m.full
    /\ cache' = m.cache
    /\ handles' = m.handles
    /\ disk' = m.disk
    /\ npdisk' = m.npdisk
    /\ coho_options' = m.opts
    /\ UNCHANGED <<tree, workspace, local_sources, create_local_sources, remote_sources>>

Report(op, KEY, GStem, pr, fs, ws, kw, m, env) ==
    LET root == RootWorkspace(Config)
        ck == PKey(KEY, root, GStem)
        p == op \in {"call", "resolve"}
    IN [op |-> op, KEY |-> KEY, GStem |-> GStem, pr |-> pr, root |-> root,
        fs |-> fs, ws |-> ws, kw |-> kw, out |-> m.out, exc |-> m.exc, trace |-> m.trace,
        hit |-> p /\ ck \in DOMAIN cache /\ AutosaveReadable(Cur, handles[cache[ck]]),
        stale |-> p /\ ck \in DOMAIN cache /\ ~AutosaveReadable(Cur, handles[cache[ck]]),
        file |-> IF op = "nonp" THEN NPReadable(npdisk, root, <<GStem, pr>>)
                 ELSE Readable(disk, root, GStem),
        arch |-> /\ local_sources # NoRoot
                 /\ IF op = "nonp" THEN NPReadable(npdisk, local_sources, <<GStem, pr>>)
                    ELSE Readable(disk, local_sources, GStem),
        stable |-> IF p /\ ck \in DOMAIN stable THEN stable[ck] ELSE 0,
        cached |-> IF p /\ ck \in DOMAIN cache THEN cache[ck] ELSE 0,
        wrote |-> m.disk # disk \/ m.npdisk # npdisk,
        resp |-> env.resp,
        web_before |-> coho_options.use_web,
        web_after |-> m.opts.use_web,
        hints |-> <<>>]

\* What an action does with the machine m that the method ends in: the state
\* becomes the state of m, and the call is reported. The factory's own calls
\* are tracked: stable holds, for a cache key, the ring the factory returned
\* for it, as long as the ring is alive and its file is readable.
Finish(op, KEY, GStem, pr, fs, ws, kw, m, env) ==
    /\ Commit(m)
    /\ stable' = StableAfter(IF op = "call" /\ m.out # 0
                             THEN (PKey(KEY, RootWorkspace(Config), GStem) :> m.out) @@ stable
                             ELSE stable, m)
    /\ restored' = {h \in restored : \E k \in DOMAIN m.cache : m.cache[k] = h}
    /\ last' = Report(op, KEY, GStem, pr, fs, ws, kw, m, env)

\* CohomologyRing(q, n, GStem=..., from_scratch=..., websource=...)
CohomologyRing(KEY, GStem, from_scratch, websource) ==
    /\ last = NoCall
    /\ \E env \in Envs(FactoryCall(Cur, KEY, GStem, from_scratch, websource, DefaultEnv).trace,
                       UrlsOf(websource), GStem) :
           Finish("call", KEY, GStem, 0, from_scratch, websource, NoKwds,
                  Settle(FactoryCall(Cur, KEY, GStem, from_scratch, websource, env)), env)

\* what a method that sets the roots and the repositories leaves behind
CommitConfig(m) ==
    /\ ~m.full
    /\ cache' = m.cache
    /\ handles' = m.handles
    /\ disk' = m.disk
    /\ npdisk' = m.npdisk
    /\ coho_options' = m.opts
    /\ workspace' = m.cfg.workspace
    /\ local_sources' = m.cfg.local_sources
    /\ create_local_sources' = m.cfg.create_local_sources
    /\ remote_sources' = m.cfg.remote_sources
    /\ UNCHANGED tree
\* the URLs a call of from_workspace can reach: the one it is given
UrlsGiven(websource) == IF websource \in {WsNone, WsFalse} THEN {} ELSE {websource}
FromWorkspaceFinish(KEY, GStem, fs, ws, m, env) ==
    /\ CommitConfig(m)
    /\ stable' = StableAfter(stable, m)
    /\ restored' = {h \in restored : \E k \in DOMAIN m.cache : m.cache[k] = h}
    /\ last' = Report("from_workspace", KEY, GStem, 0, fs, ws, NoKwds, m, env)
\* CohomologyRing.from_workspace(q, n, from_scratch=..., websource=...)
FromWorkspace(KEY, GStem, from_scratch, websource) ==
    /\ last = NoCall
    /\ \E env \in Envs(FromWorkspaceCall(Cur, KEY, GStem, from_scratch, websource, DefaultEnv).trace,
                       UrlsGiven(websource), GStem) :
           FromWorkspaceFinish(KEY, GStem, from_scratch, websource,
                               Settle(FromWorkspaceCall(Cur, KEY, GStem, from_scratch, websource, env)),
                               env)

\* CohomologyRing._get_p_group_from_cache_or_db(GStem, KEY, ..., **kwds)
GetPGroup(KEY, GStem, from_scratch, websource, kwds) ==
    /\ last = NoCall
    /\ \E env \in Envs(GetPGroupFromCacheOrDb(Cur, GStem, KEY, from_scratch, websource, kwds,
                                              DefaultEnv).trace,
                       UrlsOf(websource), GStem) :
           Finish("resolve", KEY, GStem, 0, from_scratch, websource, kwds,
                  Settle(GetPGroupFromCacheOrDb(Cur, GStem, KEY, from_scratch, websource, kwds,
                                                env)), env)

\* CohomologyRing._get_non_p_group_from_db(GStem, pr, ...)
GetNonPGroup(GStem, pr, from_scratch, websource) ==
    /\ last = NoCall
    /\ \E env \in Envs(GetNonPGroupFromDb(Cur, GStem, pr, from_scratch, websource,
                                          DefaultEnv).trace,
                       UrlsOf(websource), GStem) :
           Finish("nonp", <<>>, GStem, pr, from_scratch, websource, NoKwds,
                  Settle(GetNonPGroupFromDb(Cur, GStem, pr, from_scratch, websource, env)), env)

\* CohomologyRing.from_remote_sources(GStem, websource=...)
RemoteSources(GStem, websource) ==
    /\ last = NoCall
    /\ \E env \in Envs(FromRemoteSources(Cur, GStem, websource, 0, DefaultEnv).trace,
                       UrlsOf(websource), GStem) :
           Finish("remote", <<>>, GStem, 0, FALSE, websource, NoKwds,
                  Settle(FromRemoteSources(Cur, GStem, websource, 0, env)), env)

\* CohomologyRing.from_remote_sources(GStem, prime=prime) when the repository
\* holds a ring of the group key webgk under that name
Delivering(webgk) == [DefaultEnv EXCEPT !.resp = [u \in URLs |-> "good"], !.webgk = webgk]
RemoteSourcesPrime(GStem, prime, webgk) ==
    /\ last = NoCall
    /\ Finish("remote", <<>>, GStem, prime, FALSE, WsNone, NoKwds,
              Settle(FromRemoteSources(Cur, GStem, WsNone, prime, Delivering(webgk))),
              Delivering(webgk))

\* CohomologyRing.set_workspace(s)
SetWorkspace(s) ==
    /\ last = NoCall
    /\ workspace' = s
    /\ UNCHANGED <<tree, local_sources, create_local_sources, remote_sources, coho_options,
                   cache, handles, disk, npdisk, stable, restored, last>>

\* CohomologyRing.set_local_sources(folder): the default folder when folder
\* is True, which is used to create rings if it is writeable
SetLocalSources(folder, writeable) ==
    /\ last = NoCall
    /\ IF folder
       THEN create_local_sources' = writeable /\ local_sources' = Archive
       ELSE create_local_sources' = FALSE /\ UNCHANGED local_sources
    /\ UNCHANGED <<tree, workspace, remote_sources, coho_options, cache, handles, disk,
                   npdisk, stable, restored, last>>

\* CohomologyRing.set_remote_sources(URLs)
SetRemoteSources(urls) ==
    /\ last = NoCall
    /\ remote_sources' = urls
    /\ UNCHANGED <<tree, workspace, local_sources, create_local_sources, coho_options,
                   cache, handles, disk, npdisk, stable, restored, last>>

\* CohomologyRing.global_options('use_web') and ('nouse_web')
GlobalOptions(b) ==
    /\ last = NoCall
    /\ coho_options' = [coho_options EXCEPT !.use_web = b]
    /\ UNCHANGED <<tree, workspace, local_sources, create_local_sources, remote_sources,
                   cache, handles, disk, npdisk, stable, restored, last>>

\* CohomologyRing.reset(); sourcesOK, workspaceOK: the default folder of the
\* local sources, or of the workspace, is a folder or can be made, and the
\* one of the workspace can be written to
Reset(sourcesOK, workspaceOK) ==
    /\ last = NoCall
    /\ CommitConfig(reset(Cur, sourcesOK, workspaceOK))
    /\ stable' = <<>>
    /\ restored' = {}
    /\ last' = [NoCall EXCEPT !.op = "reset", !.exc = reset(Cur, sourcesOK, workspaceOK).exc,
                              !.hints = [cache |-> cache, options |-> coho_options,
                                         config |-> Config]]

\* the user drops the last reference to a ring ("del H")
DropRef(h) ==
    /\ last = NoCall
    /\ h \in DOMAIN handles
    /\ \A g \in DOMAIN handles : h \notin {handles[g].hp, handles[g].hsyl}
    /\ handles' = Remove(handles, h)
    /\ cache' = [k \in {x \in DOMAIN cache : cache[x] # h} |-> cache[k]]
    /\ stable' = [k \in {x \in DOMAIN stable : stable[x] # h} |-> stable[k]]
    /\ restored' = restored \ {h}
    /\ UNCHANGED <<tree, workspace, local_sources, create_local_sources, remote_sources,
                   coho_options, disk, npdisk, last>>

\* the user drops every reference to a ring
DropAll ==
    /\ last = NoCall
    /\ handles # <<>>
    /\ handles' = <<>>
    /\ cache' = <<>>
    /\ stable' = <<>>
    /\ restored' = {}
    /\ UNCHANGED <<tree, workspace, local_sources, create_local_sources, remote_sources,
                   coho_options, disk, npdisk, last>>

\* the user removes the data of a stem from a root
RemoveFile(root, GStem) ==
    /\ last = NoCall
    /\ disk[root][GStem].st # "absent"
    /\ disk' = [disk EXCEPT ![root][GStem] = Absent]
    /\ stable' = [k \in {x \in DOMAIN stable : Readable(disk', x[2][1], x[2][2])} |-> stable[k]]
    /\ UNCHANGED <<tree, workspace, local_sources, create_local_sources, remote_sources,
                   coho_options, cache, handles, npdisk, restored, last>>

\* the data of a saved ring are damaged: the file is there, and cannot be
\* unpickled any more
DamageFile(root, GStem) ==
    /\ last = NoCall
    /\ disk[root][GStem].st = "ok"
    /\ disk' = [disk EXCEPT ![root][GStem] = Corrupt]
    /\ UNCHANGED <<tree, workspace, local_sources, create_local_sources, remote_sources,
                   coho_options, cache, handles, npdisk, stable, restored, last>>
NPDamageFile(root, f) ==
    /\ last = NoCall
    /\ npdisk[root][f].st = "ok"
    /\ npdisk' = [npdisk EXCEPT ![root][f] = NPCorrupt]
    /\ UNCHANGED <<tree, workspace, local_sources, create_local_sources, remote_sources,
                   coho_options, cache, handles, disk, stable, restored, last>>

\* "del CohomologyRing._cache[H._key]"
CacheDel(key) ==
    /\ last = NoCall
    /\ key \in DOMAIN cache
    /\ cache' = Remove(cache, key)
    /\ stable' = [k \in {x \in DOMAIN stable : x # key /\ stable[x] # cache[key]} |-> stable[k]]
    /\ restored' = restored \ {cache[key]}
    /\ UNCHANGED <<tree, workspace, local_sources, create_local_sources, remote_sources,
                   coho_options, handles, disk, npdisk, last>>

\* "CohomologyRing._cache[H._key] = H"
CachePut(h) ==
    /\ last = NoCall
    /\ h \in DOMAIN handles
    /\ handles[h].key \notin DOMAIN cache
    /\ cache' = (handles[h].key :> h) @@ cache
    /\ stable' = [k \in {x \in DOMAIN stable : x # handles[h].key /\
                             handles[stable[x]].key # handles[h].key} |-> stable[k]]
    /\ restored' = restored \cup {h}
    /\ UNCHANGED <<tree, workspace, local_sources, create_local_sources, remote_sources,
                   coho_options, handles, disk, npdisk, last>>

\* _IsKeyEquivalent(k1, k2), called with the keys of two rings
KeyEquivalent(k1, k2) ==
    /\ last = NoCall
    /\ last' = [NoCall EXCEPT !.op = "compare", !.KEY = <<k1, k2>>,
                              !.out = IsKeyEquivalent(k1, k2)]
    /\ UNCHANGED <<tree, workspace, local_sources, create_local_sources, remote_sources,
                   coho_options, cache, handles, disk, npdisk, stable, restored>>

\* The optional arguments of a call for a group that is not of prime power
\* order: subgroups by name, rings by their handle (0: not given).
Hints(Subgroup, SylowSubgroup, HP, HSyl, OneStep) ==
    [Subgroup |-> Subgroup, SylowSubgroup |-> SylowSubgroup, HP |-> HP, HSyl |-> HSyl,
     OneStep |-> OneStep]
HintCount(h) ==
    (IF h.Subgroup # NoGroup THEN 1 ELSE 0) + (IF h.SylowSubgroup # NoGroup THEN 1 ELSE 0)
    + (IF h.HP # 0 THEN 1 ELSE 0) + (IF h.HSyl # 0 THEN 1 ELSE 0)
    + (IF h.OneStep THEN 1 ELSE 0)
\* the rings of proper subgroups of SmallGroup(18,3) that are alive
SubgroupRings == {h \in DOMAIN handles : handles[h].key[1] \in {<<2, 1>>, <<3, 1>>, <<9, 2>>, <<6, 2>>}}
CurTower == [Cur EXCEPT !.cap = MaxTowerHandles]
\* the ring that is returned keeps the rings it refers to alive
SettleTower(m) ==
    Collect(m, Closure(m, DOMAIN handles \cup (IF m.out # 0 THEN {m.out} ELSE {})))
\* the environment of these calls: the repositories hold no ring of the group,
\* and the file system takes what is saved
TowerEnv == DefaultEnv
TowerFrame(pr, h, fs) ==
    Frame(CurTower, "G", <<18, 3>>, "18gp3", pr, h.Subgroup, h.SylowSubgroup, h.HP, h.HSyl,
          h.OneStep, fs, WsFalse, TowerEnv)
TowerFinish(pr, h, fs, m) ==
    /\ Commit(m)
    /\ stable' = StableAfter(stable, m)
    /\ restored' = {x \in restored : x \in DOMAIN m.handles}
    /\ last' = [Report("tower", <<18, 3>>, "18gp3", pr, fs, WsFalse, NoKwds, m, TowerEnv)
                EXCEPT !.hints = h]

\* CohomologyRing(18, 3, prime=pr, Subgroup=..., SylowSubgroup=...,
\*                SubgpCohomology=..., SylowSubgpCohomology=..., OneStep=...,
\*                from_scratch=..., websource=False)
CohomologyRingTower(pr, h, fs) ==
    /\ last = NoCall
    /\ HintCount(h) <= MaxHints
    /\ h.HP \in {0} \cup SubgroupRings
    /\ h.HSyl \in {0} \cup DOMAIN handles
    /\ TowerFinish(pr, h, fs, SettleTower(TowerCall(TowerFrame(pr, h, fs)).m))

\* CohomologyRing(G, prime=pr, GStem='18gp3', websource=False) for the group
\* G = SmallGroup(18,3), given by its address or as a group of permutations,
\* when safe_save succeeds or fails and the new ring reports its key
KeyedEnv(engine, saveOK) == [TowerEnv EXCEPT !.engine = engine, !.saveOK = saveOK]
KeyedFrame(KEY, pr, env) ==
    Frame(CurTower, "G", KEY, "18gp3", pr, NoGroup, NoGroup, 0, 0, FALSE, FALSE, WsFalse, env)
KeyedFinish(KEY, pr, m) ==
    /\ Commit(m)
    /\ stable' = StableAfter(stable, m)
    /\ restored' = {x \in restored : x \in DOMAIN m.handles}
    /\ last' = [Report("tower", KEY, "18gp3", pr, FALSE, WsFalse, NoKwds, m, TowerEnv)
                EXCEPT !.hints = Hints(NoGroup, NoGroup, 0, 0, FALSE)]
CohomologyRingKeyed(KEY, pr, engine, saveOK) ==
    /\ last = NoCall
    /\ KeyedFinish(KEY, pr, SettleTower(TowerCall(KeyedFrame(KEY, pr, KeyedEnv(engine, saveOK))).m))

\* CohomologyRing(q, n, prime=pr, OneStep=..., from_scratch=..., websource=False)
\* for the group tgt of the address (q, n), while the workspace takes the
\* files that are saved (saveOK) or does not
CohomologyRingOf(tgt, pr, OneStep, fs, saveOK) ==
    /\ last = NoCall
    /\ LET m == SettleTower(TowerCall(Frame(CurTower, tgt, IdGroup(tgt), StemOf(IdGroup(tgt)),
                                            pr, NoGroup, NoGroup, 0, 0, OneStep, fs,
                                            WsFalse, KeyedEnv("same", saveOK))).m)
       IN /\ Commit(m)
          /\ stable' = StableAfter(stable, m)
          /\ restored' = {x \in restored : x \in DOMAIN m.handles}
          /\ last' = [Report("tower", IdGroup(tgt), StemOf(IdGroup(tgt)), pr, fs, WsFalse,
                              NoKwds, m, TowerEnv)
                      EXCEPT !.hints = Hints(NoGroup, NoGroup, 0, 0, OneStep)]

\* ------------------------------------------------- from_subgroup_tower
\* "p = q.factor()[0][0]"
PrimeOf(q) == IF q % 2 = 0 THEN 2 ELSE 3
\* the assertions on the chain args[0], ..., args[-1]
ChainValid(chain) ==
    /\ Len(chain) > 1
    /\ IsPrimePower(GroupOrder(chain[1]))
    /\ \A k \in 1..(Len(chain) - 1) : IsSubgroup(chain[k + 1], chain[k])
    /\ (GroupOrder(chain[Len(chain)]) \div GroupOrder(chain[1])) % PrimeOf(GroupOrder(chain[1])) # 0
\* the value of i when the loop of the assertions is left
LoopIndex(chain) == Len(chain) - 2
\* "H0.make()"
MakeOut(m1, GStem) ==
    IF m1.exc # "" \/ m1.full \/ m1.out = 0 THEN m1
    ELSE Make(Log(m1, "make", GStem), m1.out)
\* "H0 = CohomologyRing(G0, ...); H0.make()"
ChainFirst(m, G0, env) ==
    MakeOut(FactoryCall(Enter(m, "chain", StemOf(IdGroup(G0))), IdGroup(G0), StemOf(IdGroup(G0)),
                        FALSE, WsNone, env),
            StemOf(IdGroup(G0)))
\* "CohomologyRing(G1, SubgpCohomology=H0, Subgroup=G0, prime=p, from_scratch=True, ...)"
\* where H0 is the ring m.out
ChainCall(m, G1, G0, p, env) ==
    TowerCall(Frame(Enter(m, "chain", StemOf(IdGroup(G1))), G1, IdGroup(G1), StemOf(IdGroup(G1)),
                    p, G0, NoGroup, m.out, 0, FALSE, TRUE, WsNone, env)).m
\* "while i in range(1,len(args)-1): G1 = args[i]; H1 = CohomologyRing(G1, ...);
\*  H1.make(); H0 = H1; G0 = G1": i is not changed in the loop. After MaxRounds
\* rounds the call is still in the loop (the entry "running"), and nothing is
\* returned.
RECURSIVE ChainLoop(_, _, _, _, _, _)
ChainLoop(m, chain, i, G0, rounds, env) ==
    IF m.exc # "" \/ m.full THEN m
    ELSE IF i \notin 1..(Len(chain) - 2)
    THEN ChainCall(m, chain[Len(chain)], G0, PrimeOf(GroupOrder(chain[1])), env)
    ELSE IF rounds = MaxRounds THEN [Log(m, "running", "") EXCEPT !.out = 0]
    ELSE ChainLoop(MakeOut(ChainCall(m, chain[i + 1], G0, PrimeOf(GroupOrder(chain[1])), env),
                           StemOf(IdGroup(chain[i + 1]))),
                   chain, i, chain[i + 1], rounds + 1, env)
FromSubgroupTowerCall(m, chain, env) ==
    IF ~ChainValid(chain) THEN Raise(Log(m, "reject", "assert"), "AssertionError")
    ELSE ChainLoop(ChainFirst(m, chain[1], env), chain, LoopIndex(chain), chain[1], 0, env)

ChainFinish(chain, m) ==
    /\ Commit(m)
    /\ stable' = StableAfter(stable, m)
    /\ restored' = {x \in restored : x \in DOMAIN m.handles}
    /\ last' = [Report("chain", IdGroup(chain[Len(chain)]), StemOf(IdGroup(chain[Len(chain)])),
                       PrimeOf(GroupOrder(chain[1])), TRUE, WsNone, NoKwds, m, TowerEnv)
                EXCEPT !.hints = chain]
\* CohomologyRing.from_subgroup_tower(G0, ..., Gn), when safe_save succeeds
\* or fails
FromSubgroupTower(chain, saveOK) ==
    /\ last = NoCall
    /\ ChainFinish(chain, SettleTower(FromSubgroupTowerCall(CurTower, chain,
                                                            KeyedEnv("same", saveOK))))

\* _symlink_to_database(publ, priv): the report holds the changes that were
\* made, the file system before the call and, when the call repeats the one
\* before it, the file system before that one
MirrorFinish(s, again) ==
    /\ tree' = s.t
    /\ last' = [NoCall EXCEPT !.op = "mirror", !.exc = s.exc, !.trace = s.ops,
                              !.hints = [before |-> tree, again |-> again,
                                         first |-> IF again THEN last.hints.before ELSE tree]]
    /\ UNCHANGED <<workspace, local_sources, create_local_sources, remote_sources,
                   coho_options, cache, handles, disk, npdisk, stable, restored>>
Mirror ==
    /\ last = NoCall
    /\ MirrorFinish(MirrorTree(Run(tree), Publ, Priv), FALSE)
\* the same call once more, after the call has returned
MirrorAgain ==
    /\ last.op = "mirror" /\ last.exc = "" /\ ~last.hints.again
    /\ MirrorFinish(MirrorTree(Run(tree), Publ, Priv), TRUE)

\* what a method of the factory that leaves the factory alone was given and
\* what it returned or raised
MethodFinish(op, hints, r) ==
    /\ last' = [NoCall EXCEPT !.op = op, !.exc = r.exc, !.trace = r.log,
                               !.hints = [hints EXCEPT !.val = r.val]]
    /\ UNCHANGED <<tree, workspace, local_sources, create_local_sources, remote_sources,
                   coho_options, cache, handles, disk, npdisk, stable, restored>>
Arguments(G, GroupId, GroupDefinition, minimal_generators, val) ==
    [G |-> G, GroupId |-> GroupId, GroupDefinition |-> GroupDefinition,
     minimal_generators |-> minimal_generators, val |-> val]
\* CohomologyRing.create_group_key(G, GroupId=..., GroupDefinition=...)
CreateGroupKey(G, GroupId, GroupDefinition) ==
    /\ last = NoCall
    /\ MethodFinish("create_group_key", Arguments(G, GroupId, GroupDefinition, FALSE, NoKey),
                    create_group_key(G, GroupId, GroupDefinition))
\* CohomologyRing.check_arguments(args, minimal_generators=..., GroupId=...)
CheckArguments(args, minimal_generators, GroupId) ==
    /\ last = NoCall
    /\ MethodFinish("check_arguments",
                    Arguments(args, GroupId, NoGroupDefinition, minimal_generators, NoGroupChecked),
                    check_arguments(args, minimal_generators, GroupId))

\* the call is over: the interpreter is back at its prompt
Prompt ==
    /\ last # NoCall
    /\ last' = NoCall
    /\ UNCHANGED <<tree, workspace, local_sources, create_local_sources, remote_sources,
                   coho_options, cache, handles, disk, npdisk, stable, restored>>

\* ------------------------------------------------------ specifications
\* The identity of rings: the ring of SmallGroup(8,3), asked for by its
\* address and by an equivalent definition, in two workspaces.
CacheRequests == {<<<<8, 3>>, "8gp3">>, <<<<"SmallGroup(8,3)">>, "8gp3">>}
Next ==
    \/ \E r \in CacheRequests, fs \in BOOLEAN : CohomologyRing(r[1], r[2], fs, WsNone)
    \/ \E r \in CacheRequests, fs \in BOOLEAN : GetPGroup(r[1], r[2], fs, WsFalse, NoKwds)
    \/ \E s \in Workspaces : SetWorkspace(s)
    \/ \E h \in 1..MaxHandles : DropRef(h)
    \/ \E root \in Workspaces : RemoveFile(root, "8gp3")
    \/ Prompt

Spec == Init /\ [][Next]_vars

\* The cache in the hands of the user, who removes rings from it and puts
\* them back, in one workspace.
NextCache ==
    \/ \E r \in CacheRequests, fs \in BOOLEAN : GetPGroup(r[1], r[2], fs, WsFalse, NoKwds)
    \/ \E key \in DOMAIN cache : CacheDel(key)
    \/ \E h \in 1..MaxHandles : CachePut(h)
    \/ \E h \in 1..MaxHandles : DropRef(h)
    \/ RemoveFile(DefaultWorkspace, "8gp3")
    \/ Prompt

SpecCache == Init /\ [][NextCache]_vars

\* The tiers of the two resolvers in one workspace: a ring that the local
\* sources hold, a ring that only the remote sources can hold, and the mod-p
\* ring of a group that is not of prime power order.
TierRequests == {<<<<8, 3>>, "8gp3">>, <<<<128, 5>>, "128gp5">>}
TierWebsources == {WsNone, WsFalse}
NextTiers ==
    \/ \E fs \in BOOLEAN, ws \in TierWebsources : CohomologyRing(<<128, 5>>, "128gp5", fs, ws)
    \/ \E r \in TierRequests, fs \in BOOLEAN, ws \in TierWebsources : GetPGroup(r[1], r[2], fs, ws, NoKwds)
    \/ \E GStem \in NPStems, pr \in Primes, fs \in BOOLEAN, ws \in TierWebsources :
           GetNonPGroup(GStem, pr, fs, ws)
    \/ \E b \in BOOLEAN : GlobalOptions(b)
    \/ \E h \in 1..MaxHandles : DropRef(h)
    \/ \E GStem \in Stems : RemoveFile(DefaultWorkspace, GStem)
    \/ Prompt

SpecTiers == Init /\ [][NextTiers]_vars

\* The remote repositories: one or two URLs in either order.
RemoteLists == {<<"u1">>, <<"u1", "u2">>, <<"u2", "u1">>}
NextRemote ==
    \/ \E ws \in Websources : RemoteSources("128gp5", ws)
    \/ \E fs \in BOOLEAN, ws \in TierWebsources : GetPGroup(<<128, 5>>, "128gp5", fs, ws, NoKwds)
    \/ \E urls \in RemoteLists : SetRemoteSources(urls)
    \/ \E b \in BOOLEAN : GlobalOptions(b)
    \/ \E h \in 1..MaxHandles : DropRef(h)
    \/ RemoveFile(DefaultWorkspace, "128gp5")
    \/ Prompt

SpecRemote == Init /\ [][NextRemote]_vars

\* The fetch from two repositories, by the resolver and by the factory, while
\* the ring of SmallGroup(8,3) can be alive in the cache.
NextFetch ==
    \/ CohomologyRing(<<128, 5>>, "128gp5", FALSE, WsNone)
    \/ GetPGroup(<<128, 5>>, "128gp5", FALSE, WsNone, NoKwds)
    \/ GetPGroup(<<8, 3>>, "8gp3", FALSE, WsFalse, NoKwds)
    \/ \E urls \in RemoteLists : SetRemoteSources(urls)
    \/ \E h \in 1..MaxHandles : DropRef(h)
    \/ RemoveFile(DefaultWorkspace, "128gp5")
    \/ Prompt

SpecFetch == Init /\ [][NextFetch]_vars

\* The resolver asked for the stem 8gp3 under the address it belongs to,
\* under an equivalent definition and under the address of another group,
\* with and without properties to set, while the data can be removed from
\* the workspace and from the local sources.
LibraryRequests == {<<<<8, 3>>, "8gp3">>, <<<<"SmallGroup(8,3)">>, "8gp3">>, <<<<128, 5>>, "8gp3">>}
NextLibrary ==
    \/ \E r \in LibraryRequests, ws \in TierWebsources, kwds \in Kwds :
           GetPGroup(r[1], r[2], FALSE, ws, kwds)
    \/ \E root \in {DefaultWorkspace, Archive} : RemoveFile(root, "8gp3")
    \/ \E h \in 1..MaxHandles : DropRef(h)
    \/ Prompt

SpecLibrary == Init /\ [][NextLibrary]_vars

\* The keys of rings that are compared: the keys of rings of prime power
\* groups in two workspaces, and the keys of rings of SmallGroup(18,3), given
\* by its address or by an equivalent definition, and of SmallGroup(18,4),
\* each with the key of the ring of the subgroup it is computed from.
PrimePowerKeys ==
    {PKey(r[1], root, r[2]) : r \in Requests, root \in Workspaces}
SubgroupKeys ==
    {PKey(<<2, 1>>, DefaultWorkspace, "2gp1"), PKey(<<6, 2>>, DefaultWorkspace, "6gp2"),
     PKey(<<9, 2>>, DefaultWorkspace, "9gp2")}
CompositeKeys ==
    {NPKey(K, IF K = <<18, 4>> THEN "18gp4" ELSE "18gp3", sub, IF sub[1] = <<9, 2>> THEN 3 ELSE 2) :
        K \in {<<18, 3>>, <<"SmallGroup(18,3)">>, <<18, 4>>}, sub \in SubgroupKeys}
RingKeys == PrimePowerKeys \cup CompositeKeys
NextKeys ==
    \/ \E k1 \in RingKeys, k2 \in RingKeys : KeyEquivalent(k1, k2)
    \/ Prompt

SpecKeys == Init /\ [][NextKeys]_vars

\* The tower of subgroups: the rings of SmallGroup(18,3) modulo 2 and 3, with
\* every choice of at most MaxHints optional arguments, and the rings of its
\* Sylow subgroups and of its centre.
TowerSubgroups == {NoGroup, "T2", "C6", "C3"}
TowerSylowSubgroups == {NoGroup, "T1", "T2"}
TowerHints ==
    {Hints(P, S, HP, HSyl, OneStep) :
        P \in TowerSubgroups, S \in TowerSylowSubgroups, HP \in 0..MaxTowerHandles,
        HSyl \in 0..MaxTowerHandles, OneStep \in BOOLEAN}
NextTower ==
    \/ \E pr \in Primes, h \in TowerHints, fs \in BOOLEAN : CohomologyRingTower(pr, h, fs)
    \/ CohomologyRing(<<3, 1>>, "3gp1", FALSE, WsNone)
    \/ DropAll
    \/ Prompt

SpecTower == Init /\ [][NextTower]_vars

\* Calls for SmallGroup(18,3) and SmallGroup(6,1) without a subgroup, with and
\* without OneStep, from the stored rings or from scratch.
CollapseTargets == {"G", "S3"}
NextCollapse ==
    \/ \E tgt \in CollapseTargets, pr \in Primes, OneStep \in BOOLEAN, fs \in BOOLEAN,
          saveOK \in BOOLEAN :
           CohomologyRingOf(tgt, pr, OneStep, fs, saveOK)
    \/ DropAll
    \/ Prompt
SpecCollapse == Init /\ [][NextCollapse]_vars

\* Calls for SmallGroup(18,3) with optional arguments, while the workspace can
\* hold a ring that was computed before or one that was downloaded under the
\* name of the group: a ring of that group or of SmallGroup(18,4).
StoredGroupKeys == {<<18, 3>>, <<18, 4>>}
NextStored ==
    \/ \E pr \in Primes, h \in TowerHints : CohomologyRingTower(pr, h, FALSE)
    \/ \E pr \in Primes, webgk \in StoredGroupKeys : RemoteSourcesPrime("18gp3", pr, webgk)
    \/ CohomologyRing(<<2, 1>>, "2gp1", FALSE, WsNone)
    \/ DropAll
    \/ Prompt
SpecStored == Init /\ [][NextStored]_vars

\* The resolvers and the factory while the files of the workspace and of the
\* local sources can be damaged.
NextDecode ==
    \/ \E fs \in BOOLEAN : CohomologyRing(<<8, 3>>, "8gp3", fs, WsNone)
    \/ \E fs \in BOOLEAN : GetPGroup(<<8, 3>>, "8gp3", fs, WsNone, NoKwds)
    \/ \E pr \in Primes, fs \in BOOLEAN : GetNonPGroup("18gp3", pr, fs, WsFalse)
    \/ \E root \in Roots : DamageFile(root, "8gp3")
    \/ NPDamageFile(Archive, <<"18gp3", 2>>)
    \/ RemoveFile(DefaultWorkspace, "8gp3")
    \/ \E h \in 1..MaxHandles : DropRef(h)
    \/ Prompt
SpecDecode == Init /\ [][NextDecode]_vars

\* The keys of the rings that the factory returns: the stem 8gp3 asked for
\* under the address it belongs to, under an equivalent definition and under
\* the definition of another group of order 8, and the rings of
\* SmallGroup(18,3), given by its address or by a definition, whatever key
\* the new ring reports.
CompatRequests ==
    {<<<<8, 3>>, "8gp3">>, <<<<"SmallGroup(8,3)">>, "8gp3">>, <<<<"SmallGroup(8,4)">>, "8gp3">>}
TowerGroupKeys == {<<18, 3>>, <<"SmallGroup(18,3)">>}
NextCompat ==
    \/ \E r \in CompatRequests : CohomologyRing(r[1], r[2], FALSE, WsFalse)
    \/ \E KEY \in TowerGroupKeys, pr \in Primes, engine \in Engines, saveOK \in BOOLEAN :
           CohomologyRingKeyed(KEY, pr, engine, saveOK)
    \/ DropAll
    \/ Prompt

SpecCompat == Init /\ [][NextCompat]_vars

\* Chains of subgroups of SmallGroup(18,3): from a Sylow subgroup to the
\* group, directly or through the normaliser of the Sylow 2-subgroup, chains
\* that are not nested or do not start with a Sylow subgroup, and a chain in
\* which a group is repeated. Every group but the first is not of prime
\* power order.
AllChains ==
    {<<"T1", "G">>, <<"Syl3", "G">>, <<"T1", "C6", "G">>, <<"T2", "C6", "G">>,
     <<"C3", "G">>, <<"C6", "G">>, <<"T1", "C6", "C6", "G">>}
Chains == {chain \in AllChains : Len(chain) <= MaxChain}
NextChain ==
    \/ \E chain \in Chains, saveOK \in BOOLEAN : FromSubgroupTower(chain, saveOK)
    \/ \E pr \in Primes : CohomologyRingKeyed(<<18, 3>>, pr, "same", TRUE)
    \/ DropAll
    \/ Prompt

SpecChain == Init /\ [][NextChain]_vars

\* _symlink_to_database(publ, priv) on every file system of Trees, once and
\* once more
InitMirror ==
    /\ workspace = DefaultWorkspace
    /\ local_sources = Archive
    /\ create_local_sources = FALSE
    /\ remote_sources = DefaultRemoteSources
    /\ coho_options = DefaultOptions
    /\ cache = <<>>
    /\ handles = <<>>
    /\ disk = InitDisk
    /\ npdisk = InitNPDisk
    /\ stable = <<>>
    /\ restored = {}
    /\ last = NoCall
    /\ tree \in Trees
NextMirror ==
    \/ Mirror
    \/ MirrorAgain
    \/ Prompt

SpecMirror == InitMirror /\ [][NextMirror]_vars

\* from_workspace for a ring of the library and one of order 128, with the
\* local sources set or not, used to create rings or not, with the default
\* repositories or others, and with a repository given in the call or not
NextWorkspace ==
    \/ \E r \in TierRequests, fs \in BOOLEAN, ws \in Websources : FromWorkspace(r[1], r[2], fs, ws)
    \/ \E folder \in BOOLEAN, writeable \in BOOLEAN : SetLocalSources(folder, writeable)
    \/ \E urls \in RemoteLists : SetRemoteSources(urls)
    \/ DropAll
    \/ Prompt

SpecWorkspace == Init /\ [][NextWorkspace]_vars

\* reset after calls of the factory, from scratch or not, and after the
\* workspace, the local sources, the repositories and the options were set
NextReset ==
    \/ \E fs \in BOOLEAN : CohomologyRing(<<8, 3>>, "8gp3", fs, WsFalse)
    \/ \E s \in Workspaces : SetWorkspace(s)
    \/ \E folder \in BOOLEAN, writeable \in BOOLEAN : SetLocalSources(folder, writeable)
    \/ \E urls \in RemoteLists : SetRemoteSources(urls)
    \/ \E b \in BOOLEAN : GlobalOptions(b)
    \/ \E sourcesOK \in BOOLEAN, workspaceOK \in BOOLEAN : Reset(sourcesOK, workspaceOK)
    \/ Prompt

SpecReset == Init /\ [][NextReset]_vars

\* The keyword prime of a call for SmallGroup(18,3): missing, no prime, a
\* prime that does not divide 18, or one that does; with and without a
\* subgroup, a Sylow subgroup and from_scratch.
PrimeArguments == {0, 2, 3, 4, 5}
PrimeHints == {h \in TowerHints : h.HP = 0 /\ h.HSyl = 0 /\ ~h.OneStep}
NextPrime ==
    \/ \E pr \in PrimeArguments, h \in PrimeHints, fs \in BOOLEAN : CohomologyRingTower(pr, h, fs)
    \/ DropAll
    \/ Prompt

SpecPrime == Init /\ [][NextPrime]_vars

\* create_group_key and check_arguments on every descriptor, with and
\* without the optional arguments
KeyDescriptors == {G \in Descriptors : Len(G) \in {1, 2}}
NextArgs ==
    \/ \E G \in KeyDescriptors, GroupId \in GroupIds, GroupDefinition \in GroupDefinitions :
          CreateGroupKey(G, GroupId, GroupDefinition)
    \/ \E args \in Descriptors, minimal_generators \in BOOLEAN, GroupId \in GroupIds :
          CheckArguments(args, minimal_generators, GroupId)
    \/ Prompt

SpecArgs == Init /\ [][NextArgs]_vars

\* --------------------------------------------------------------- claims
IsFactoryCall == last.op = "call"
IsResolve == last.op = "resolve"
IsNonP == last.op = "nonp"
Returned == last.exc = "" /\ last.out # 0

IsRequest == last.op \in {"call", "resolve", "nonp"}
Refused == last.exc = "StaleDataConflict" /\ last.out = 0 /\ ~last.wrote
CacheKeyOfCall == PKey(last.KEY, last.root, last.GStem)
HasNonPRing == \E h \in DOMAIN handles : Len(handles[h].key) = 4

C4_StaleCacheHealing ==
    (IsResolve /\ last.stale)
        => /\ Has(last.trace, "evict")
           /\ last.out # last.cached
           /\ ~(CacheKeyOfCall \in DOMAIN cache /\ cache[CacheKeyOfCall] = last.cached)
           /\ Has(last.trace, "workspace") /\ ~last.file
           /\ (last.arch /\ ~last.fs) => Has(last.trace, "mirror")
           /\ (~last.arch /\ ~last.fs /\ last.ws # WsFalse /\ last.web_before)
                  => Has(last.trace, "remote")
\* the stale ring is still alive, and another ring was found in the remote
\* sources
C4_Witness ==
    /\ IsResolve /\ last.stale /\ Returned
    /\ Has(last.trace, "tar")
    /\ last.cached \in DOMAIN handles /\ last.out # last.cached

\* the place of a tier in the trace of the last call (0: not consulted)
Pos(tier) ==
    IF Has(last.trace, tier)
    THEN CHOOSE i \in 1..Len(last.trace) :
             /\ last.trace[i][1] = tier
             /\ \A j \in 1..(i - 1) : last.trace[j][1] # tier
    ELSE 0

\* C5: Tier ordering. The prime power resolver asks the cache first; it looks
\* into the workspace only if the cache missed, mirrors the local sources
\* only if the cache missed and the workspace holds no readable file, and
\* searches the remote sources only if the cache missed and neither the
\* workspace nor the local sources hold the ring; each tier comes after the
\* earlier ones in the trace of the call.
C5_TierOrdering ==
    IsResolve =>
        /\ Pos("cache") = 1
        /\ last.hit => ~Has(last.trace, "workspace")
        /\ Has(last.trace, "workspace") => Pos("cache") < Pos("workspace")
        /\ Has(last.trace, "mirror") =>
               /\ ~last.hit /\ ~last.file
               /\ 0 < Pos("workspace") /\ Pos("workspace") < Pos("mirror")
        /\ Has(last.trace, "symlink") => Has(last.trace, "mirror")
        /\ Has(last.trace, "remote") =>
               /\ ~last.hit /\ ~last.file /\ ~last.arch
               /\ ~Has(last.trace, "mirror")
               /\ 0 < Pos("workspace") /\ Pos("workspace") < Pos("remote")
        /\ Has(last.trace, "tar") => Has(last.trace, "remote")
\* every tier before the remote sources missed, and a repository delivered
\* the ring
C5_Witness ==
    /\ IsResolve /\ Returned
    /\ Pos("cache") = 1 /\ Pos("workspace") = 2 /\ Pos("remote") > 2
    /\ Has(last.trace, "tar")

\* when no tier holds data for the key of the last call
RemoteDisabled == last.ws = WsFalse \/ ~last.web_after
NoTierHolds == last.cached = 0 /\ ~last.file /\ ~last.arch /\ RemoteDisabled
SavedBasic ==
    /\ Readable(disk, last.root, last.GStem)
    /\ Content(disk, last.root, last.GStem) = Saved(last.KEY, 0)

C7_RootIndependence ==
    [][(last = NoCall /\ last'.op = "call" /\ last'.exc = "" /\ last'.out # 0) =>
          /\ handles'[last'.out].key[2][1] = workspace
          /\ \A k \in DOMAIN cache :
                 (Len(k) = 2 /\ k[2][1] # workspace) =>
                     /\ k \in DOMAIN cache' /\ cache'[k] = cache[k]
                     /\ cache[k] # last'.out]_vars
\* the ring of the same group under the other root is alive, in the cache,
\* and another ring than the one returned
C7_Witness ==
    /\ IsFactoryCall /\ Returned
    /\ \E k \in DOMAIN cache :
           /\ k[1] = last.KEY /\ k[2][2] = last.GStem /\ k[2][1] # last.root
           /\ cache[k] # last.out
           /\ handles[cache[k]].key = k

\* C8: With from_scratch no resolver mirrors the local sources or searches
\* the remote sources for the ring.
C8_ScratchCopiesNothing ==
    (IsRequest /\ last.fs) =>
        /\ ~Has(last.trace, "mirror") /\ ~Has(last.trace, "symlink")
        /\ ~Has(last.trace, "remote") /\ ~Has(last.trace, "tar")
\* the local sources hold the ring, the workspace does not, and the
\* prime power resolver returns nothing
C8_Witness ==
    /\ IsResolve /\ last.fs /\ last.arch /\ ~last.file /\ last.cached = 0
    /\ last.exc = "" /\ last.out = 0 /\ ~last.wrote

\* C9: A call of the factory with from_scratch leaves the option use_web as
\* it found it.
C9_UseWebAsFound ==
    (IsFactoryCall /\ last.fs) => last.web_after = last.web_before

\* the list of URLs of the last call, the URLs it contacted, in order, and
\* whether the ring could be loaded after the i-th URL answered
ListOfCall == IF last.ws = WsNone THEN remote_sources ELSE <<last.ws>>
Contacted == SelectSeq(last.trace, LAMBDA e : e[1] = "tar")
Delivers(i) ==
    /\ last.resp[ListOfCall[i]] \notin Raising
    /\ last.file \/ \E j \in 1..i : last.resp[ListOfCall[j]] = "good"
FirstSuccess ==
    IF \E i \in 1..Len(ListOfCall) : Delivers(i)
    THEN MinOf({i \in 1..Len(ListOfCall) : Delivers(i)})
    ELSE 0

\* C10: from_remote_sources contacts the URLs in the order of the list, up to
\* the first URL after which a ring can be loaded, and returns that ring; a
\* URL that yields nothing does not keep it from the next URL.
C10_StopsAtFirstSuccess ==
    (last.op = "remote" /\ Has(last.trace, "remote")) =>
        /\ Len(Contacted) = (IF FirstSuccess = 0 THEN Len(ListOfCall) ELSE FirstSuccess)
        /\ \A i \in 1..Len(Contacted) : Contacted[i][2] = ListOfCall[i]
        /\ FirstSuccess # 0 => Returned

\* the URL that a call contacted last, and what became of the fetch
ContactedIn(c) == SelectSeq(c.trace, LAMBDA e : e[1] = "tar")
LastAnswerIn(c) ==
    IF ContactedIn(c) = <<>> THEN "none"
    ELSE c.resp[ContactedIn(c)[Len(ContactedIn(c))][2]]
FetchFailed == LastAnswerIn(last) \in {"http404", "unreachable", "othererr"}
Interrupted == LastAnswerIn(last) = "interrupt"
FellBackToScratch ==
    /\ Has(last.trace, "initBasic")
    /\ Returned
    /\ handles[last.out].key = CacheKeyOfCall

\* C11: Soft transport miss. When the fetch from a repository fails (the
\* artifact is absent, the repository is unreachable, or the transport fails
\* otherwise), nothing is raised: the prime power resolver returns no ring,
\* and the factory makes the ring from scratch.
C11_SoftTransportMiss ==
    (last.op \in {"call", "resolve"} /\ FetchFailed) =>
        /\ last.exc = ""
        /\ IsResolve => last.out = 0
        /\ IsFactoryCall => FellBackToScratch

\* C12: A user interrupt during the fetch is caught by the prime power
\* resolver and ends the fetch only: the resolver raises nothing and returns
\* no ring, and the factory goes on to make the ring from scratch.
C12_InterruptEndsFetch ==
    (last.op \in {"call", "resolve"} /\ Interrupted) =>
        /\ last.exc = ""
        /\ IsResolve => last.out = 0
        /\ IsFactoryCall => FellBackToScratch
\* the factory was interrupted during the fetch and returns the ring of a
\* basic setup
C12_Witness ==
    /\ IsFactoryCall /\ Interrupted /\ FellBackToScratch
    /\ handles[last.out].deg = 0
\* C12 as it is stated: the interrupt ends the whole resolution, no result is
\* returned and nothing is made from scratch
C12_InterruptAbortsAll ==
    (last.op \in {"call", "resolve"} /\ Interrupted) =>
        /\ last.exc # "" /\ last.out = 0
        /\ ~Has(last.trace, "initBasic")

\* C13: A user interrupt during the fetch of the prime power resolver ends
\* the fetch only: the resolver returns without a ring and without an
\* exception, and the cache and the rings alive are what they were when the
\* fetch began (that is, after the cache tier, which removes the entry of the
\* requested key if its file is not readable).
C13_InterruptKeepsCache ==
    [][(last = NoCall /\ last'.op = "resolve" /\ LastAnswerIn(last') = "interrupt") =>
          /\ last'.exc = "" /\ last'.out = 0
          /\ handles' = handles
          /\ cache' = [k \in DOMAIN cache \ (IF last'.stale
                                              THEN {PKey(last'.KEY, last'.root, last'.GStem)}
                                              ELSE {}) |-> cache[k]]]_vars
\* the first repository delivered the ring and the second was interrupted,
\* while another ring is in the cache
C13_Witness ==
    /\ IsResolve /\ Interrupted
    /\ Len(ContactedIn(last)) = 2
    /\ last.resp[ContactedIn(last)[1][2]] = "good"
    /\ DOMAIN cache # {}
    /\ last.exc = "" /\ last.out = 0

\* the file of the requested stem after the call, and whether the call
\* loaded a ring from it: from the workspace, through the links to the local
\* sources, or after the last repository had answered
StoredInWorkspace == Content(disk, last.root, last.GStem)
LoadedFromFile ==
    /\ StoredInWorkspace.st = "ok"
    /\ \/ Has(last.trace, "load")
       \/ LastAnswerIn(last) \in Answers \ Raising

\* C14: A ring that the prime power resolver returns from the workspace, the
\* local sources or the remote sources for a key that is an address of the
\* SmallGroups library has a group that is canonically isomorphic to the
\* group of that address; when the ring that was loaded has another group,
\* the resolver raises ValueError and returns no ring.
C14_LibraryCheck ==
    (IsResolve /\ Len(last.KEY) = 2 /\ ~last.hit) =>
        /\ Returned => CanonicalIsomorphism(handles[last.out].key[1], last.KEY)
        /\ (LoadedFromFile /\ ~CanonicalIsomorphism(StoredInWorkspace.gk, last.KEY))
               => (last.exc = "ValueError" /\ last.out = 0)
\* the local sources hold, under the stem that is asked for, the ring of
\* another group than the address names; the links are made, the ring is
\* loaded, and the request fails
C14_Witness ==
    /\ IsResolve /\ Len(last.KEY) = 2 /\ ~last.hit
    /\ Has(last.trace, "symlink") /\ LoadedFromFile
    /\ ~CanonicalIsomorphism(StoredInWorkspace.gk, last.KEY)
    /\ last.exc = "ValueError" /\ last.out = 0

\* C15: The keyword arguments given to the prime power resolver are set as
\* properties of the ring it returns, whichever tier the ring comes from,
\* the cache included.
C15_OverridesApplied ==
    (IsResolve /\ Returned /\ last.kw # NoKwds) => handles[last.out].props = last.kw

IsCompare == last.op = "compare"
\* how the leading group keys of two keys compare
LeadingSimilarity(k1, k2) ==
    IF k1[1] = k2[1] THEN Equal
    ELSE IF CanonicalIsomorphism(k1[1], k2[1]) THEN Equivalent
    ELSE Different

\* C16: Equivalence classification. A key compared with itself is equal;
\* keys of different length are different; keys of the same length whose
\* leading group keys differ but denote canonically isomorphic groups are
\* equivalent and not equal; keys whose groups are not canonically
\* isomorphic are different.
C16_Classification ==
    IsCompare =>
        /\ last.KEY[1] = last.KEY[2] => last.out = Equal
        /\ Len(last.KEY[1]) # Len(last.KEY[2]) => last.out = Different
        /\ (/\ Len(last.KEY[1]) = Len(last.KEY[2])
            /\ last.KEY[1][1] # last.KEY[2][1]
            /\ CanonicalIsomorphism(last.KEY[1][1], last.KEY[2][1])) => last.out = Equivalent
        /\ ~CanonicalIsomorphism(last.KEY[1][1], last.KEY[2][1]) => last.out = Different
\* the keys of two rings of SmallGroup(18,3), one given by its address and
\* one by a definition, compare as equivalent
C16_Witness ==
    /\ IsCompare /\ last.out = Equivalent
    /\ Len(last.KEY[1]) = 4 /\ Len(last.KEY[2]) = 4
    /\ last.KEY[1][1] = <<18, 3>> /\ last.KEY[2][1] = <<"SmallGroup(18,3)">>

\* C17: Composite-key monotonicity. Two keys (KEY, GStem, HP._key, pr) compare
\* as the minimum of how their leading group keys compare and of how the keys
\* of the rings of their subgroups compare; when these are different, the
\* keys are different, also with equal leading group keys.
C17_CompositeMonotone ==
    (IsCompare /\ Len(last.KEY[1]) = 4 /\ Len(last.KEY[2]) = 4) =>
        last.out = Min2(LeadingSimilarity(last.KEY[1], last.KEY[2]),
                        IsKeyEquivalent(last.KEY[1][3], last.KEY[2][3]))
IsTower == last.op = "tower"
\* the ring that the call returned
OutRing == handles[last.out]
OutSubgroup == RingSubgroup(Cur, last.out)
OutSylowSubgroup == RingSylowSubgroup(Cur, last.out)
BadIndex(P, pr) == IsSubgroup("G", P) /\ Index("G", P) % pr = 0
\* the call failed: with the error of the first check that the arguments or
\* the workspace do not pass
Rejected == last.out = 0 /\ last.exc # ""
Assembled == Has(last.trace, "assemble")

\* C18: a call that is given an intermediate subgroup whose index in the
\* group is divisible by the prime fails with an error, and no ring of the
\* group is assembled, returned or saved by it.
C18_BadIndexRejected ==
    (IsTower /\ last.hints.Subgroup # NoGroup /\ BadIndex(last.hints.Subgroup, last.pr))
        => (Rejected /\ ~Assembled /\ ~Has(last.trace, "save"))

\* C19: the ring that the tower builder assembles for G is built on a subgroup
\* P of G whose index is not divisible by the prime and on a subgroup S of P
\* that is a Sylow subgroup of G: of prime power order divisible by the prime,
\* and of index not divisible by the prime.
C19_CrossConstraints ==
    (IsTower /\ Assembled /\ last.out # 0)
        => /\ IsSubgroup("G", OutSubgroup)
           /\ Index("G", OutSubgroup) % last.pr # 0
           /\ IsSubgroup("G", OutSylowSubgroup)
           /\ IsSubgroup(OutSubgroup, OutSylowSubgroup)
           /\ IsPrimePower(GroupOrder(OutSylowSubgroup))
           /\ GroupOrder(OutSylowSubgroup) % last.pr = 0
           /\ Index("G", OutSylowSubgroup) % last.pr # 0

\* C20 (as stated): the ring that a call returns is built on every ring and
\* every subgroup that the call was given.
C20_SuppliedAreUsed ==
    (IsTower /\ last.out # 0)
        => /\ last.hints.HP # 0 => OutRing.hp = last.hints.HP
           /\ last.hints.HSyl # 0 => OutRing.hsyl = last.hints.HSyl
           /\ last.hints.Subgroup # NoGroup => OutSubgroup = last.hints.Subgroup
           /\ last.hints.SylowSubgroup # NoGroup => OutSylowSubgroup = last.hints.SylowSubgroup

\* C20 (amended): the ring that a call returns is built on the ring
\* SubgpCohomology that the call was given, unless OneStep is asked for; on
\* the ring SylowSubgpCohomology, unless SubgpCohomology is given as well; on
\* a subgroup that is canonically isomorphic to the given Subgroup, unless
\* OneStep is asked for; and on a Sylow subgroup that is canonically
\* isomorphic to the given SylowSubgroup.
C20_SuppliedUsedOrIgnored ==
    (IsTower /\ last.out # 0)
        => /\ (last.hints.HP # 0 /\ ~last.hints.OneStep) => OutRing.hp = last.hints.HP
           /\ (last.hints.HSyl # 0 /\ last.hints.HP = 0) => OutRing.hsyl = last.hints.HSyl
           /\ (last.hints.Subgroup # NoGroup /\ ~last.hints.OneStep)
                  => SubgroupIsomorphism(OutSubgroup, last.hints.Subgroup)
           /\ last.hints.SylowSubgroup # NoGroup
                  => SubgroupIsomorphism(OutSylowSubgroup, last.hints.SylowSubgroup)
\* a call that is given both rings returns a ring that is built on the first
\* and not on the second
C20_Witness ==
    /\ IsTower /\ last.out # 0
    /\ last.hints.HP # 0 /\ last.hints.HSyl # 0
    /\ OutRing.hp = last.hints.HP
    /\ OutRing.hsyl # last.hints.HSyl
    /\ ~IsMODCOHO(Cur, last.hints.HSyl)
    /\ Assembled

\* a call of the factory, for a group of prime power order or not
IsCall == IsFactoryCall \/ IsTower
\* the key that the factory computes for the request: CacheKey
RecomputedKey ==
    IF IsFactoryCall THEN PKey(last.KEY, last.root, last.GStem)
    ELSE NPKey(last.KEY, last.GStem, handles[OutRing.hp].key, last.pr)
ComparedDifferent ==
    \/ Has(last.trace, "mismatch")
    \/ \E i \in 1..Len(last.trace) : last.trace[i] = <<"reject", "Cache keys are corrupted">>
Rewritten == Has(last.trace, "rekey")

\* C21 (as stated): the stored key of every ring the factory returns equals
\* the key recomputed for the request, and the factory never rewrites the
\* stored key of a ring.
C21_StoredKeyIsRecomputed ==
    IsCall => /\ ~Rewritten
              /\ Returned => OutRing.key = RecomputedKey

\* C21 (amended): the stored key of every ring the factory returns is equal
\* or equivalent to the key recomputed for the request, as _IsKeyEquivalent
\* classifies them; when the keys are found different the call fails with
\* ValueError or RuntimeError and returns no ring; and the only stored key
\* that is rewritten is that of the ring assembled just before, which is
\* returned only when the rewritten key equals the recomputed one.
C21_StoredKeyEquivalent ==
    IsCall =>
        /\ Returned => IsKeyEquivalent(RecomputedKey, OutRing.key) # Different
        /\ ComparedDifferent => (last.out = 0 /\ last.exc \in {"ValueError", "RuntimeError"})
        /\ \A i \in 1..Len(last.trace) :
               last.trace[i][1] = "rekey" => (i > 1 /\ last.trace[i - 1][1] = "assemble")
        /\ (Rewritten /\ Returned) => OutRing.key = RecomputedKey
\* the new ring reported the definition of its group with blanks: its key
\* was rewritten, and the ring is returned
C21_Witness ==
    /\ IsTower /\ Returned /\ Rewritten /\ Assembled
    /\ OutRing.key = RecomputedKey

IsChain == last.op = "chain"
\* the groups whose rings the call asked the factory for, in that order
IsChainEntry(e) == e[1] = "chain"
Resolved == SelectSeq(last.trace, IsChainEntry)
Ascending(chain) == [k \in 1..Len(chain) |-> <<"chain", StemOf(IdGroup(chain[k]))>>]

\* C22: for a chain of n >= 2 nested groups that passes the assertions,
\* from_subgroup_tower returns the ring of the last group, after it has
\* asked for the ring of each group of the chain once, in ascending order,
\* each ring but the first built on the group before it.
C22_ChainCompletes ==
    (IsChain /\ ChainValid(last.hints)) =>
        /\ Returned
        /\ RingGroupId(Cur, last.out) = IdGroup(last.hints[Len(last.hints)])
        /\ Resolved = Ascending(last.hints)
        /\ OutSubgroup = last.hints[Len(last.hints) - 1]

IsMirror == last.op = "mirror"
\* the name in priv of an entry of publ
InPriv(p) == <<"Q">> \o SubSeq(p, 2, Len(p))
InPubl(p) == <<"P">> \o SubSeq(p, 2, Len(p))
\* the entries of the folder publ and of the folders in it
PublEntries(t) == {p \in DOMAIN t : Len(p) > 1 /\ p[1] = "P"}
\* priv before the call: no entry, or a folder with no entry
EmptyPriv(t) ==
    /\ \A p \in DOMAIN t : p[1] = "Q" => p = Priv
    /\ Priv \in DOMAIN t => t[Priv].k = "dir"

\* C23: a second call of _symlink_to_database with the same folders, after
\* a first call that returned and found priv empty, raises no error, makes
\* and removes no link and no folder, and leaves the links as they are.
C23_MirrorIdempotent ==
    (IsMirror /\ last.hints.again /\ EmptyPriv(last.hints.first)) =>
        /\ last.exc = ""
        /\ last.trace = <<>>
        /\ tree = last.hints.before
\* priv was empty, the first call made the folders and the links, and the
\* second call has returned
C23_Witness ==
    /\ IsMirror /\ last.hints.again /\ EmptyPriv(last.hints.first)
    /\ IsDir(tree, <<"Q", "dat">>) /\ IsLink(tree, <<"Q", "dat", "A">>) /\ IsLink(tree, <<"Q", "H">>)
    /\ last.exc = ""

\* C24: after _symlink_to_database(publ, priv) has returned, whatever priv
\* held before: every entry of publ that is not a folder is a link in priv
\* that resolves to the entry, every folder in publ is a folder in priv and
\* not a link, and the entries of priv that publ does not have are as they
\* were.
C24_MirrorPostcondition ==
    (IsMirror /\ last.exc = "") =>
        /\ \A p \in PublEntries(tree) :
               IF IsDir(tree, p)
               THEN LPath(tree, InPriv(p)) \in DOMAIN tree /\ tree[LPath(tree, InPriv(p))].k = "dir"
               ELSE /\ IsLink(tree, InPriv(p))
                    /\ Realpath(tree, InPriv(p), MaxLinks) = Realpath(tree, p, MaxLinks)
        /\ \A q \in DOMAIN last.hints.before :
               (q[1] = "Q" /\ Len(q) > 1 /\ InPubl(q) \notin DOMAIN last.hints.before
                /\ Parent(InPubl(q)) \in DOMAIN last.hints.before)
                   => (q \in DOMAIN tree /\ tree[q] = last.hints.before[q])

\* publ before the call: not readable, not a folder, or the folder that priv
\* resolves to
BadSource(t) ==
    \/ ~AccessR(t, Publ)
    \/ ~IsDir(t, Publ)
    \/ Realpath(t, Priv, MaxLinks) = Realpath(t, Publ, MaxLinks)
\* C25: when publ is not readable, is not a folder or resolves to the path of
\* priv, _symlink_to_database raises an error and has changed nothing: no
\* folder made, no entry removed, no link made.
C25_BadSourceNoChange ==
    (IsMirror /\ BadSource(last.hints.before)) =>
        /\ last.exc # ""
        /\ last.trace = <<>>
        /\ tree = last.hints.before
\* priv is a link to publ: the call has raised ValueError
C25_Witness ==
    /\ IsMirror /\ AccessR(last.hints.before, Publ) /\ IsDir(last.hints.before, Publ)
    /\ Realpath(last.hints.before, Priv, MaxLinks) = Publ
    /\ last.exc = "ValueError" /\ tree = last.hints.before

IsCreateGroupKey == last.op = "create_group_key"
IsCheckArguments == last.op = "check_arguments"
\* the group the descriptor holds, when it holds one group in GAP
OneGroup(G) == Len(G) = 1 /\ IsGapGroup(G[1])
\* the string has no blank and no line break in it
WhitespaceFree(s) == \A i \in 1..Len(s) : s[i] \notin Whitespace
\* 'Group([a,b,...])' for the generators a, b, ... without their blanks
GeneratorString(g) ==
    <<"Group(", "[">> \o Join(<<",">>, [i \in 1..Len(g.gens) |-> Unspaced(g.gens[i])])
                      \o <<"]", ")">>
\* the key that the order of precedence gives
ByPrecedence(a) ==
    IF a.GroupDefinition # NoGroupDefinition THEN StrKey(a.GroupDefinition)
    ELSE IF Len(a.G) = 2 THEN PairKey(a.G[1], a.G[2])
    ELSE IF a.GroupId # NoGroupId THEN PairKey(a.GroupId.id[1], a.GroupId.id[2])
    ELSE IF SmallGroupProbe(a.G[1]) THEN PairKey(a.G[1].id[1], a.G[1].id[2])
    ELSE TupleKey(GeneratorString(a.G[1]))

\* C26: The key of a group follows a fixed order of precedence. A definition
\* string that is given is returned as it is; else a descriptor of two
\* elements gives its pair (order, index); else a GroupId that is given
\* gives that pair, whether or not it is the address of the group; else the
\* address of the group in the library, when the group is found there; else
\* the string of the generators of the group without blanks and line
\* breaks, the group being converted to a permutation group first when it
\* is none (and only then).
C26_KeyPrecedence ==
    (IsCreateGroupKey /\ (Len(last.hints.G) = 2 \/ OneGroup(last.hints.G)))
    => /\ last.exc = ""
       /\ last.hints.val = ByPrecedence(last.hints)
       /\ WhitespaceFree(last.hints.val.str)
       /\ (last.trace # <<>>) <=> /\ last.hints.val.type = "tuple"
                                   /\ last.hints.val.ints = <<>>
                                   /\ ~last.hints.G[1].perm
\* the key of a group that is no permutation group and is not found in the
\* library is the string of the generators of its permutation group, and
\* a GroupId that is not the address of the group is the key
C26_Witness ==
    /\ IsCreateGroupKey
    /\ \/ /\ last.hints.G = <<D8pc>> /\ last.hints.GroupId = NoGroupId
          /\ last.hints.GroupDefinition = NoGroupDefinition
          /\ last.hints.val = TupleKey(<<"Group(", "[", "(1,2)(3,8)(4,6)(5,7)", ",",
                                         "(1,3,4,7)", "(2,5,6,8)", "]", ")">>)
       \/ /\ last.hints.G = <<S8>> /\ last.hints.GroupId.id = <<8, 4>>
          /\ last.hints.GroupDefinition = NoGroupDefinition
          /\ last.hints.val = PairKey(8, 4)
\* the descriptor is an address in the library
IsAddress(G) == Len(G) = 2
\* the descriptor names the trivial group, by its address or as a group
IsTrivialGroup(G) == IF IsAddress(G) THEN G = <<1, 1>> ELSE OneGroup(G) /\ G[1].order = 1
\* the faults of the arguments other than the one of the trivial group
Malformed(a) ==
    \/ Len(a.G) < 1 \/ Len(a.G) > 2
    \/ IsAddress(a.G) /\ a.GroupId # NoGroupId /\ a.GroupId.id # a.G
    \/ IsAddress(a.G) /\ ~(1 <= a.G[2] /\ a.G[2] <= NumberSmallGroups(a.G[1]))
    \/ OneGroup(a.G) /\ a.GroupId # NoGroupId /\ ~(a.G[1].canon /\ a.G[1].id = a.GroupId.id)
    \/ /\ OneGroup(a.G) /\ IsPrimePower(a.G[1].order) /\ ~a.G[1].min
       /\ ~a.minimal_generators
NoGroupReturned == last.exc # "" /\ last.hints.val = NoGroupChecked

\* C27: check_arguments rejects a descriptor of no or of more than two
\* elements, an address that differs from the GroupId given with it or whose
\* index is not in the range of the library, a group that is not canonically
\* isomorphic to the library group of the GroupId given with it, the trivial
\* group, and a group of prime power order whose generators do not start
\* with a minimal generating set (unless minimal_generators is given): an
\* exception is raised and no group is returned.
C27_InvalidRejected ==
    (IsCheckArguments /\ (Malformed(last.hints) \/ IsTrivialGroup(last.hints.G))) => NoGroupReturned
\* the keyword prime is missing, is no prime, or does not divide the order 18
BadPrime(pr) == pr = 0 \/ ~IsPrime(pr) \/ 18 % pr # 0
\* nothing was done in the call but to reject it
OnlyRejected(trace) == Len(trace) = 1 /\ trace[1][1] = "reject"

\* C28: For a group whose order is no prime power, a call without prime,
\* with a value that is no prime, or with a prime that does not divide the
\* order raises ValueError, which leaves the factory at once: nothing is
\* returned, no tier was asked and no subgroup resolved, and the cache, the
\* rings and the files of the workspace are what they were before the call.
C28_BadPrimeRejected ==
    [][(last'.op = "tower" /\ last.op # "tower" /\ BadPrime(last'.pr))
       => /\ last'.exc = "ValueError" /\ last'.out = 0
          /\ OnlyRejected(last'.trace)
          /\ UNCHANGED <<cache, handles, disk, npdisk>>]_vars
\* a prime that does not divide the order is rejected while the cache holds
\* rings of an earlier call and a subgroup is given
C28_Witness ==
    /\ last.op = "tower" /\ last.pr = 5 /\ last.exc = "ValueError"
    /\ last.hints.Subgroup # NoGroup
    /\ cache # <<>>
\* the local sources were linked to, or a repository was contacted
ArchiveUsed(trace) == Has(trace, "mirror") \/ Has(trace, "archive")
RemoteUsed(trace) == Has(trace, "tar") \/ Has(trace, "sobj")

\* C29: from_workspace disallows the other sources for the time of the call
\* only: in the call the local sources are not linked to and no repository
\* is contacted, and after the call, whether it returned or raised, the
\* local sources, the remote sources and the flag that rings are created in
\* the local sources are what they were before the call.
C29_FromWorkspaceTemporary ==
    [][(last'.op = "from_workspace" /\ last.op # "from_workspace")
       => /\ ~ArchiveUsed(last'.trace)
          /\ ~RemoteUsed(last'.trace)
          /\ UNCHANGED <<local_sources, remote_sources, create_local_sources>>]_vars
IsReset == last.op = "reset"

\* C30: After reset has returned, whatever calls of the factory and changes
\* of its settings came before: the cache is empty, the options are the
\* default options, the workspace, the local sources and the remote sources
\* are the default ones, and rings are not created in the local sources.
C30_ResetDefaults ==
    (IsReset /\ last.exc = "")
    => /\ cache = <<>>
       /\ coho_options = DefaultOptions
       /\ workspace = DefaultWorkspace
       /\ local_sources = Archive
       /\ remote_sources = DefaultRemoteSources
       /\ ~create_local_sources
\* reset has returned, and before it the cache held a ring and neither the
\* options nor the workspace, the flag or the repositories were the default
C30_Witness ==
    /\ IsReset /\ last.exc = ""
    /\ last.hints.cache # <<>>
    /\ last.hints.options # DefaultOptions
    /\ last.hints.config.workspace # DefaultWorkspace
    /\ last.hints.config.create_local_sources
    /\ last.hints.config.remote_sources # DefaultRemoteSources
\* the place in the trace of a call where the ring of the requested group is
\* looked up in the cache with success, or is assembled: the last such entry,
\* those before it belong to the calls that resolve the subgroup rings
CombinePoints(trace) ==
    {i \in 1..Len(trace) : trace[i] = <<"cache", "hit">> \/ trace[i][1] = "assemble"}
CombineAt(trace) ==
    IF CombinePoints(trace) = {} THEN 0
    ELSE CHOOSE i \in CombinePoints(trace) : \A j \in CombinePoints(trace) : j <= i
ResolveTags == {"sylow", "subgroup", "make", "assemble"}
TowerCacheHit(trace) == CombineAt(trace) # 0 /\ trace[CombineAt(trace)] = <<"cache", "hit">>

\* C31: In a call for a group that is not of prime power order, the composite
\* key is looked up in the cache only after the ring of the Sylow subgroup and
\* the ring of the intermediate subgroup are resolved (or the tower has
\* collapsed, by itself or by OneStep), and nothing is resolved after it. When
\* the cache holds the key,
\* the call returns the ring that the cache held and assembles no ring; a
\* ring is assembled only when the cache did not hold its key.
C31_LookupAfterResolution ==
    [][(last'.op = "tower" /\ last.op # "tower" /\ CombineAt(last'.trace) # 0)
       => /\ \A j \in (CombineAt(last'.trace) + 1)..Len(last'.trace) :
                 last'.trace[j][1] \notin ResolveTags
          /\ \E j \in 1..(CombineAt(last'.trace) - 1) : last'.trace[j][1] = "sylow"
          /\ \/ last'.hints.OneStep
             \/ \E j \in 1..(CombineAt(last'.trace) - 1) :
                    last'.trace[j][1] \in {"subgroup", "collapse"}
          /\ TowerCacheHit(last'.trace)
                => /\ last'.exc = "" /\ last'.out # 0
                   /\ handles'[last'.out].key \in DOMAIN cache
                   /\ cache[handles'[last'.out].key] = last'.out
          /\ (~TowerCacheHit(last'.trace) /\ last'.out # 0)
                => handles'[last'.out].key \notin DOMAIN cache]_vars
\* a call has returned the ring that the cache held under the composite key,
\* after the rings of the subgroups were resolved, and has assembled nothing
C31_Witness ==
    /\ IsTower /\ Returned /\ TowerCacheHit(last.trace)
    /\ last.trace[Len(last.trace)] = <<"cache", "hit">>
    /\ Has(last.trace, "sylow") /\ Has(last.trace, "subgroup")
    /\ ~Has(last.trace, "assemble")
\* the call has assembled the ring of the requested group
TopAssembled ==
    /\ IsTower /\ CombineAt(last.trace) # 0
    /\ last.trace[CombineAt(last.trace)][1] = "assemble"
\* the file of the ring in the workspace holds the ring that is returned
OutOnDisk ==
    /\ NPReadable(npdisk, last.root, <<last.GStem, last.pr>>)
    /\ NPContent(npdisk, last.root, <<last.GStem, last.pr>>).gk = OutRing.key[1]
Corrupted ==
    \E i \in 1..Len(last.trace) : last.trace[i] = <<"reject", "Cache keys are corrupted">>
UpdateFailed ==
    \E i \in 1..Len(last.trace) : last.trace[i] = <<"reject", "safe_save">>

OutHP == handles[OutRing.hp]
Completed(R) == R.deg # 0
MadeInside == Has(last.trace, "make")

\* C33 (as stated): the ring of the requested group is looked up or assembled
\* only when the ring of the intermediate subgroup is complete, and no call
\* completes a ring by itself.
C33_NeverCompletedInside ==
    (IsTower /\ CombineAt(last.trace) # 0)
    => /\ Returned => Completed(OutHP)
       /\ ~MadeInside

\* C33 (amended): the ring of the requested group is looked up or assembled
\* only when the ring of the intermediate subgroup is complete; a ring of the
\* intermediate subgroup that is given or resolved incomplete is completed by
\* the call itself, before the lookup and the assembly and never after them.
C33_CompletedBeforeCombine ==
    (IsTower /\ CombineAt(last.trace) # 0)
    => /\ Returned => Completed(OutHP)
       /\ \A i \in 1..Len(last.trace) :
              last.trace[i][1] = "make" => i < CombineAt(last.trace)
       /\ \A i \in 1..Len(last.trace) :
              last.trace[i][1] = "assemble"
              => \A j \in (i + 1)..Len(last.trace) :
                     last.trace[j][1] = "make" => \E k \in (j + 1)..Len(last.trace) :
                                                      last.trace[k][1] = "assemble"
\* a ring is returned that was assembled after the call itself has completed
\* the ring of the intermediate subgroup
C33_Witness ==
    /\ IsTower /\ Returned /\ TopAssembled /\ MadeInside
    /\ Completed(OutHP)
    /\ last.trace[CombineAt(last.trace) - 1][1] = "make"
\* the group that is asked for
TargetOf(KEY) == IF KEY = <<6, 1>> THEN "S3" ELSE "G"
\* the normalizer of the centre of the Sylow subgroup of the returned ring
OutNormalizer == NormalizerOfCentre(TargetOf(last.KEY), OutSylowSubgroup)
Collapses ==
    \/ last.hints.OneStep
    \/ OutNormalizer = OutSylowSubgroup
    \/ OutNormalizer = TargetOf(last.KEY)
\* the call was given neither an intermediate subgroup nor its ring, and has
\* built the tower of subgroups
BuiltWithoutSubgroup ==
    /\ IsTower /\ Returned /\ CombineAt(last.trace) # 0
    /\ last.hints.Subgroup = NoGroup /\ last.hints.HP = 0

\* C34: When no intermediate subgroup is given and the tower is built, the
\* intermediate subgroup is the normalizer of the centre of the Sylow subgroup
\* and its ring is resolved, unless that normalizer is the Sylow subgroup or
\* the whole group or OneStep is set: then the intermediate subgroup is the
\* Sylow subgroup, its ring is the ring of the Sylow subgroup, and no ring of
\* an intermediate subgroup is resolved.
C34_TowerCollapse ==
    BuiltWithoutSubgroup
    => IF Collapses
       THEN /\ OutSubgroup = OutSylowSubgroup
            /\ OutRing.hp = OutRing.hsyl
            /\ ~Has(last.trace, "subgroup")
       ELSE /\ OutSubgroup = OutNormalizer
            /\ OutRing.hp # OutRing.hsyl
            /\ Has(last.trace, "subgroup")
\* the normalizer is the Sylow subgroup itself, OneStep is not set, and the
\* ring is built on the ring of the Sylow subgroup
C34_Witness ==
    /\ BuiltWithoutSubgroup /\ ~last.hints.OneStep
    /\ OutNormalizer = OutSylowSubgroup /\ OutNormalizer # TargetOf(last.KEY)
    /\ OutSubgroup = OutSylowSubgroup /\ OutRing.hp = OutRing.hsyl
\* the call has found a ring of the group in the workspace, and has loaded it
StoredFound ==
    /\ IsTower
    /\ \E i \in 1..Len(last.trace) : last.trace[i] = <<"load", last.GStem>>
EngineTags == {"sylow", "subgroup", "collapse", "make", "assemble", "initBasic"}
\* what the stored ring must agree with
StoredAgrees ==
    /\ CanonicalIsomorphism(last.KEY, OutRing.key[1])
    /\ last.hints.HP # 0 => OutRing.hp = last.hints.HP
    /\ last.hints.HSyl # 0 => OutRing.hsyl = last.hints.HSyl
    /\ last.hints.Subgroup # NoGroup => SubgroupIsomorphism(last.hints.Subgroup, OutSubgroup)
    /\ last.hints.SylowSubgroup # NoGroup
           => SubgroupIsomorphism(last.hints.SylowSubgroup, OutSylowSubgroup)

\* C35: A call that finds a stored ring of the group on disk returns it only
\* if its group is canonically isomorphic to the group asked for, the rings
\* that are given are the rings it is built on, and the subgroups that are
\* given are canonically isomorphic to its subgroups; otherwise the call
\* fails with ValueError. In both cases the call resolves no ring of a
\* subgroup, and no ring is set up, completed or assembled.
C35_StoredRingChecked ==
    StoredFound
    => /\ \A i \in 1..Len(last.trace) : last.trace[i][1] \notin EngineTags
       /\ Returned => StoredAgrees
       /\ ~Returned => (last.out = 0 /\ last.exc = "ValueError")
\* the stored ring is returned to a call that is given the subgroup and the
\* ring that it is built on
C35_Witness ==
    /\ StoredFound /\ Returned /\ StoredAgrees
    /\ last.hints.Subgroup # NoGroup /\ last.hints.HP # 0
\* the call of a resolver or of the factory that has just ended tried to
\* load a file that cannot be unpickled
LoadedUndecodable(l, d, npd) ==
    /\ l.op \in {"call", "resolve", "nonp"}
    /\ \E i \in 1..Len(l.trace) : l.trace[i] = <<"load", l.GStem>>
    /\ IF l.op = "nonp" THEN NPContent(npd, l.root, <<l.GStem, l.pr>>).st = "corrupt"
       ELSE Content(d, l.root, l.GStem).st = "corrupt"

\* C36: When the file of the workspace, or the file of the local sources that
\* was just linked, is there and cannot be unpickled, the call fails with
\* IOError: nothing is tried after the load, the cache gains no entry, and the
\* option '@use_this_root@' is removed.
C36_UndecodableIsIOError ==
    [][(last = NoCall /\ LoadedUndecodable(last', disk', npdisk'))
       => /\ last'.exc = "IOError" /\ last'.out = 0
          /\ last'.trace[Len(last'.trace)] = <<"load", last'.GStem>>
          /\ DOMAIN cache' \subseteq DOMAIN cache
          /\ coho_options'.use_this_root = NoRoot]_vars
\* the same without the kind of the error
C36_UndecodableFails ==
    [][(last = NoCall /\ LoadedUndecodable(last', disk', npdisk'))
       => /\ last'.exc \in {"IOError", "ValueError"} /\ last'.out = 0
          /\ (last'.exc = "ValueError") => (last'.op = "nonp" /\ Has(last'.trace, "symlink"))
          /\ last'.trace[Len(last'.trace)] = <<"load", last'.GStem>>
          /\ DOMAIN cache' \subseteq DOMAIN cache
          /\ coho_options'.use_this_root = NoRoot]_vars
\* What a call asks of a repository: an entry "tar" of the trace is the
\* request of URL + GStem + '.tar.gz', an entry "sobj" the request of
\* URL + 'H' + GStem + 'mod%d.sobj' % prime.
RequestsOf(trace, kind) == {i \in 1..Len(trace) : trace[i][1] = kind}
AskedRemote == Has(last.trace, "tar") \/ Has(last.trace, "sobj")

\* C37: The resolver of the prime power case and the factory ask the
\* repositories for the archive <url>/<stem>.tar.gz only, and the resolver of
\* the groups that are not of prime power order asks for the file
\* <url>/H<stem>mod<p>.sobj only.
C37_ArtifactOfKind ==
    /\ (last.op \in {"call", "resolve"} /\ AskedRemote) => RequestsOf(last.trace, "sobj") = {}
    /\ (last.op = "nonp" /\ AskedRemote) => RequestsOf(last.trace, "tar") = {}
\* how the key of the returned ring compares with the key that is asked for
OutSimilarity == IsKeyEquivalent(PKey(last.KEY, last.root, last.GStem), OutRing.key)
Warned == \E i \in 1..Len(last.trace) : last.trace[i] = <<"warning", "equivalent">>

\* C38: A call of the factory for a group of prime power order never returns
\* a ring whose key is different from the key that is asked for: a ring with
\* an equal key is returned without a warning, a ring with an equivalent key
\* is returned with a warning, and when the ring that was found has a
\* different key the call fails with ValueError and returns nothing.
C38_NeverDifferent ==
    IsFactoryCall
    => /\ Returned => \/ (OutSimilarity = Equal /\ ~Warned)
                      \/ (OutSimilarity = Equivalent /\ Warned)
       /\ Warned => Returned
       /\ Has(last.trace, "mismatch") => (last.out = 0 /\ last.exc = "ValueError")
\* the ring of SmallGroup(8,3) is returned, with a warning, to a call that
\* gives another definition of the group
C38_Witness ==
    /\ IsFactoryCall /\ Returned /\ Warned
    /\ OutSimilarity = Equivalent
    /\ OutRing.key[1] # last.KEY
\* the call was given no subgroup and no ring of a subgroup
NoSubgroupHints ==
    /\ IsTower
    /\ last.hints.Subgroup = NoGroup /\ last.hints.SylowSubgroup = NoGroup
    /\ last.hints.HP = 0 /\ last.hints.HSyl = 0
\* the rings that are assembled inside the call for the intermediate subgroup
InnerAssembled(trace) ==
    {j \in RequestsOf(trace, "assemble") :
        /\ \E i \in RequestsOf(trace, "subgroup") : i < j
        /\ j < CombineAt(trace)}

\* C39: A call that is given no subgroup and no ring of a subgroup ends, and
\* the factory is entered from it at most once for the Sylow subgroup and at
\* most once for the intermediate subgroup; the call for the intermediate
\* subgroup enters the factory no further: when it builds its ring, the tower
\* has collapsed, and the ring is built on the Sylow subgroup.
C39_RecursionBounded ==
    NoSubgroupHints
    => /\ last.out # 0 \/ last.exc # ""
       /\ Cardinality(RequestsOf(last.trace, "sylow")) <= 1
       /\ Cardinality(RequestsOf(last.trace, "subgroup")) <= 1
       /\ \A i \in RequestsOf(last.trace, "subgroup") :
              \A j \in (i + 1)..Len(last.trace) : last.trace[j][1] \notin {"sylow", "subgroup"}
       /\ \A j \in InnerAssembled(last.trace) :
              /\ IsPrimePower(GroupOrder(last.trace[j][2]))
              /\ \E c \in 1..(j - 1) :
                     /\ last.trace[c][1] = "collapse"
                     /\ \E i \in RequestsOf(last.trace, "subgroup") : i < c
\* the ring of the group is built on the ring of a proper intermediate
\* subgroup, which the call for that subgroup has built on the Sylow subgroup
C39_Witness ==
    /\ NoSubgroupHints /\ Returned /\ TopAssembled
    /\ InnerAssembled(last.trace) # {}
    /\ Cardinality(RequestsOf(last.trace, "sylow")) = 1
    /\ Cardinality(RequestsOf(last.trace, "subgroup")) = 1
    /\ OutSubgroup # OutSylowSubgroup

\* C40: Key comparison is symmetric: comparing k1 with k2 gives what comparing
\* k2 with k1 gives. It ignores the file location: two keys of rings of prime
\* power groups with the same group key compare as equal, also when the
\* rings are stored under different roots.
C40_SymmetricLocationFree ==
    IsCompare =>
        /\ last.out = IsKeyEquivalent(last.KEY[2], last.KEY[1])
        /\ (/\ Len(last.KEY[1]) = 2 /\ Len(last.KEY[2]) = 2
            /\ last.KEY[1][1] = last.KEY[2][1]) => last.out = Equal
\* the keys of the rings of one prime power group in two workspaces have
\* been compared
C40_Witness ==
    /\ IsCompare /\ last.out = Equal
    /\ Len(last.KEY[1]) = 2 /\ Len(last.KEY[2]) = 2
    /\ last.KEY[1][1] = last.KEY[2][1]
    /\ last.KEY[1][2][1] # last.KEY[2][2][1]
    /\ last.KEY[1][2][2] = last.KEY[2][2][2]
====
